---------------------------- MODULE Spec2Model ----------------------------
(***************************************************************************)
(* Dividend retrieval service: the in-memory cache (CacheManager over a    *)
(* cachetools TTLCache) and the multi-source orchestrator (ScraperManager).*)
(*                                                                         *)
(* Strings that the code transforms (ticker symbols, cache keys) are       *)
(* sequences of one-character strings.  Time is counted in ticks of a      *)
(* third of the cache's TTL, and every time the state holds is relative to *)
(* the present: Datetime(2) is two ticks from now, an entry with expires   *)
(* = 0 has expired.  The same clock stands for datetime.utcnow() and for   *)
(* the cache's monotonic timer.                                            *)
(***************************************************************************)
EXTENDS Integers, Sequences, FiniteSets, TLC

\* ------------------------------------------------------------------ bounds
MaxRecords == 2     \* most records one provider answer or one stored result holds
MaxThreads == 2     \* threads calling the CacheManager directly
MaxRequests == 2    \* get_dividend_data calls that go to the providers in one behaviour
MaxCount == 3       \* most successes, and most failures, recorded for one provider
MaxLen == 3         \* longest symbol string whose canonical form is computed, long ones apart

\* ------------------------------------------------------- program constants
MaxSize == 2        \* CacheManager(max_size=1000), scaled down
DefaultTTL == 3     \* CacheManager(default_ttl=3600): three ticks of 1200 s
CacheTTL == 3       \* ScraperManager(cache_ttl=3600): three ticks of 1200 s
Backoff == 2        \* asyncio.sleep(2) after a rate limit, in seconds
MaxConcurrent == 2  \* max_concurrent
MaxSymbolLen == 10  \* longest valid symbol
RateLimitDelay == 3 \* MarketWatchScraper: rate_limit_delay=1.5, three ticks of half a second

\* ------------------------------------------------------- values and strings
NoneStr == "None"                     \* None where a str is optional
NoneDt == <<"None", 0>>               \* None where a datetime is optional
Datetime(t) == <<"datetime", t>>      \* a datetime object, t ticks from now
IsoFormat(d) == <<"str", d[2]>>       \* datetime.isoformat(): a str
IsDatetime(v) == v[1] = "datetime"

\* a faulty Upper: the case of every letter is swapped
SwapCase(s) ==
    [i \in 1..Len(s) |-> CASE s[i] = "a" -> "A" [] s[i] = "A" -> "a"
                            [] s[i] = "b" -> "B" [] s[i] = "B" -> "b" [] OTHER -> s[i]]

\* str.upper()
Upper(s) ==
    [i \in 1..Len(s) |-> CASE s[i] = "a" -> "A" [] s[i] = "b" -> "B" [] OTHER -> s[i]]

RECURSIVE LStrip(_)
LStrip(s) == IF s # <<>> /\ Head(s) = " " THEN LStrip(Tail(s)) ELSE s

RECURSIVE RStrip(_)
RStrip(s) ==
    IF s # <<>> /\ s[Len(s)] = " " THEN RStrip(SubSeq(s, 1, Len(s) - 1)) ELSE s

Strip(s) == RStrip(LStrip(s))

\* symbol strings callers pass in
RawSymbols == { <<"a", " ">>, <<"B">>, <<" ">> }

Providers == {"yahoo", "marketwatch"}

\* ------------------------------------------------------------- data model
\* DividendData (symbol, ex_date, source; the other optional fields behave like
\* ex_date).  The i-th record of an answer has no ex_date when i = 1, and the
\* date number i otherwise.
DividendData(sym, src, i) ==
    [symbol |-> sym,
     ex_date |-> IF i = 1 THEN NoneDt ELSE Datetime(i),
     source |-> src]

\* DividendCalendarResponse
DividendCalendarResponse(sym, divs, cnt, att, succ) ==
    [symbol |-> sym, dividends |-> divs, total_count |-> cnt, cached |-> FALSE,
     cache_expires_at |-> NoneDt, sources_attempted |-> att, successful_source |-> succ]

\* DividendCalendarResponse.model_dump: datetimes become isoformat strings
DumpField(v) == IF IsDatetime(v) THEN IsoFormat(v) ELSE v

model_dump(r) ==
    [r EXCEPT !.cache_expires_at = DumpField(@),
              !.dividends = [i \in 1..Len(@) |-> [@[i] EXCEPT !.ex_date = DumpField(@)]]]

\* a faulty ParseField: the ISO strings stay strings
ParseFieldIdentity(v) == v

\* DividendCalendarResponse(**cached_data): pydantic parses ISO strings of
\* datetime fields back into datetimes
ParseField(v) == IF v[1] = "str" THEN Datetime(v[2]) ELSE v

model_validate(d) ==
    [d EXCEPT !.cache_expires_at = ParseField(@),
              !.dividends = [i \in 1..Len(@) |-> [@[i] EXCEPT !.ex_date = ParseField(@)]]]

\* what a provider's scrape_dividend_data returns for n records
ScraperResponse(sym, src, n) ==
    DividendCalendarResponse(sym, [i \in 1..n |-> DividendData(sym, src, i)], n,
                             <<src>>, IF n > 0 THEN src ELSE NoneStr)

\* ---------------------------------------------------------------- TTLCache
\* The cache is the sequence of its entries [key, value, expires] in the order of
\* the TTLCache's links (least recently used first).  Entries past their expiry
\* stay in the store until an operation expires them.

HasKey(c, k) == \E i \in 1..Len(c) : c[i].key = k

Entry(c, k) == c[CHOOSE i \in 1..Len(c) : c[i].key = k]

Without(c, k) == SelectSeq(c, LAMBDA e : e.key # k)

\* self.timer() < link.expires
Unexpired(e) == 0 < e.expires

\* TTLCache.__contains__
Contains(c, k) == HasKey(c, k) /\ Unexpired(Entry(c, k))

\* TTLCache.expire(time)
Expire(c) == SelectSeq(c, Unexpired)

\* TTLCache.popitem
PopItem(c) == Tail(Expire(c))

\* Cache.__setitem__: while self.currsize + size > maxsize: self.popitem()
RECURSIVE EvictWhileFull(_, _)
EvictWhileFull(c, k) ==
    IF ~HasKey(c, k) /\ Len(c) + 1 > MaxSize
    THEN EvictWhileFull(PopItem(c), k)
    ELSE c

\* Cache.__setitem__ / TTLCache.__setitem__ after eviction: store and link at the end
StoreItem(c, k, v) ==
    Append(Without(c, k), [key |-> k, value |-> v, expires |-> DefaultTTL])

\* TTLCache.__setitem__
SetItem(c, k, v) == StoreItem(EvictWhileFull(Expire(c), k), k, v)

\* one tick later: every time the cache holds is one tick nearer; the times
\* before the present are all alike
AgeTime(t) == IF t >= 0 THEN t - 1 ELSE t

AgeField(v) == IF IsDatetime(v) THEN Datetime(AgeTime(v[2])) ELSE v

Age(c) ==
    [i \in 1..Len(c) |->
        [c[i] EXCEPT !.expires = IF @ > 0 THEN @ - 1 ELSE 0,
                     !.value.cache_expires_at = AgeField(@)]]


\* ------------------------------------------------------------ CacheManager
NoResult == [none |-> TRUE]           \* None where a response is optional

\* CacheManager._generate_cache_key (source=None)
GenerateCacheKey(symbol) == <<"dividend:">> \o Upper(symbol)

\* ttl or self.default_ttl (0 stands for ttl=None)
EffectiveTTL(ttl) == IF ttl # 0 THEN ttl ELSE DefaultTTL

\* CacheManager.set, up to the store: the dict that is cached
CacheData(data, ttl) ==
    [model_dump(data) EXCEPT !.cache_expires_at = Datetime(EffectiveTTL(ttl))]

\* a faulty HitData: the stored dict is returned as it is
HitDataUnmarked(value) == value

\* CacheManager.get on a hit: the stored dict after its metadata is rewritten
HitData(value) ==
    [value EXCEPT !.cached = TRUE, !.cache_expires_at = Datetime(DefaultTTL)]

\* a faulty CacheGet: a hit stores the entry anew, with a full lifetime
CacheGetRefreshing(c, symbol) ==
    LET key == GenerateCacheKey(symbol) IN
    IF Contains(c, key)
    THEN LET cached_data == HitData(Entry(c, key).value) IN
         [cache |-> StoreItem(c, key, cached_data),
          ret |-> model_validate(cached_data)]
    ELSE [cache |-> c, ret |-> NoResult]

\* CacheManager.get: the cache afterwards and the value returned
CacheGet(c, symbol) ==
    LET key == GenerateCacheKey(symbol) IN
    IF Contains(c, key)
    THEN LET cached_data == HitData(Entry(c, key).value) IN
         [cache |-> Append(Without(c, key), [Entry(c, key) EXCEPT !.value = cached_data]),
          ret |-> model_validate(cached_data)]
    ELSE [cache |-> c, ret |-> NoResult]

\* CacheManager.set
CacheSet(c, symbol, data, ttl) ==
    SetItem(c, GenerateCacheKey(symbol), CacheData(data, ttl))

\* a faulty CacheInvalidate: every entry goes with the one invalidated
CacheInvalidateAll(c, symbol) ==
    LET key == GenerateCacheKey(symbol) IN
    IF Contains(c, key)
    THEN [cache |-> <<>>, ret |-> TRUE]
    ELSE [cache |-> c, ret |-> FALSE]

\* CacheManager.invalidate: the cache afterwards and the value returned
CacheInvalidate(c, symbol) ==
    LET key == GenerateCacheKey(symbol) IN
    IF Contains(c, key)
    THEN [cache |-> Without(c, key), ret |-> TRUE]
    ELSE [cache |-> c, ret |-> FALSE]

\* CacheManager.clear_all: len() expires first, then clear()
CacheClearAll(c) == [cache |-> <<>>, ret |-> Len(Expire(c))]

\* ------------------------------------------------------------------- state
VARIABLES
    cache,      \* cache_manager._cache
    lock,       \* cache_manager._lock: 0 when free, else the thread holding it
    thr,        \* threads calling the CacheManager directly: where each one is
    use_cache,      \* scraper_manager.use_cache
    scraper_stats,  \* scraper_manager.scraper_stats
    calls,      \* the get_dividend_data coroutines: where each one is
    ready,      \* tasks created by get_multiple_symbols that have not run yet, in order
    batch,      \* the get_multiple_symbols coroutine
    budget,     \* get_dividend_data calls that may still go to the providers
    route,      \* the requests to GET /dividend/{symbol}: where each one is
    stats_response, \* what the last get_scraper_stats call returned
    validation,     \* a symbol on its way through get_dividend_data and _validate_symbol
    phase,          \* a _try_concurrent_scraping call of its own: where it is
    scraper         \* the MarketWatchScraper and the scrape_dividend_data calls on it

vars == <<cache, lock, thr, use_cache, scraper_stats, calls, ready, batch, budget, route,
          stats_response, validation, phase, scraper>>

cacheVars == <<cache, lock, thr>>
managerVars == <<use_cache, scraper_stats, calls, ready, batch, budget>>
extraVars == <<route, stats_response, validation, phase, scraper>>
statsVars == <<stats_response, validation, phase, scraper>>

Threads == 1..MaxThreads

\* ttl arguments of set (0 stands for ttl=None)
TTLs == {0, 1}

\* responses handed to CacheManager.set directly
SetInputs == { ScraperResponse(<<"A">>, "yahoo", n) : n \in {0, MaxRecords} }

\* symbols passed to the CacheManager directly
CacheSymbols == { <<"A">>, <<"a", " ">>, <<"B">> }

\* the scrape_dividend_data calls that can be under way on one scraper
Callers == {1, 2}

\* a scrape_dividend_data call that has not begun
IdleScrape == [pc |-> "idle", symbol |-> <<>>, page |-> "none", sleep_time |-> 0,
               rate_limited |-> FALSE, dividends |-> 0, outcome |-> [kind |-> "none", n |-> 0]]

\* The scraper after construction.  since_last is the time since
\* _last_request_time in ticks, RateLimitDelay standing for that and more:
\* _last_request_time = 0 is long ago.
IdleScraper == [since_last |-> RateLimitDelay, tasks |-> [k \in Callers |-> IdleScrape]]

\* no _try_concurrent_scraping call of its own is under way
IdlePhase == [pc |-> "idle", symbol |-> <<>>, tasks |-> <<>>, sources_attempted |-> <<>>,
              result |-> [none |-> TRUE]]

\* no symbol is on its way
NoValidation == [pc |-> "none", raw |-> <<>>, symbol |-> <<>>]

IdleThread == [pc |-> "idle", symbol |-> <<>>, data |-> NoResult, ttl |-> 0, ret |-> FALSE]

\* the get_dividend_data coroutines that can be alive at a time
CallIds == {1, 2}

IdleCall == [pc |-> "idle", raw |-> <<>>, pref |-> <<>>, kind |-> "none", idx |-> 0,
             attempted |-> <<>>, wake |-> 0, result |-> NoResult]

IdleBatch == [pc |-> "idle", tasks |-> <<>>, results |-> <<>>]

\* a request slot of the route: status and error_code of the response, its body,
\* and the use_cache parameter and original_cache_setting while the handler awaits
IdleRoute == [pc |-> "idle", symbol |-> <<>>, sources |-> <<>>, status |-> 0,
              error_code |-> NoneStr, body |-> NoResult, use_cache |-> TRUE,
              original_cache_setting |-> TRUE]

\* ScraperManager.__init__ and the lazily built scraper_stats; CacheManager.__init__
CacheInit ==
    /\ cache = <<>>
    /\ lock = 0
    /\ thr = [t \in Threads |-> IdleThread]
    /\ use_cache = TRUE
    /\ scraper_stats = [p \in Providers |-> [success_count |-> 0, error_count |-> 0]]
    /\ calls = [c \in CallIds |-> IdleCall]
    /\ ready = <<>>
    /\ batch = IdleBatch
    /\ budget = MaxRequests
    /\ route = [c \in CallIds |-> IdleRoute]
    /\ stats_response = NoResult
    /\ validation = NoValidation
    /\ phase = IdlePhase
    /\ scraper = IdleScraper

\* the same, for ScraperManager(use_cache=True) and ScraperManager(use_cache=False)
Init ==
    /\ cache = <<>>
    /\ lock = 0
    /\ thr = [t \in Threads |-> IdleThread]
    /\ use_cache \in BOOLEAN
    /\ scraper_stats = [p \in Providers |-> [success_count |-> 0, error_count |-> 0]]
    /\ calls = [c \in CallIds |-> IdleCall]
    /\ ready = <<>>
    /\ batch = IdleBatch
    /\ budget = MaxRequests
    /\ route = [c \in CallIds |-> IdleRoute]
    /\ stats_response = NoResult
    /\ validation = NoValidation
    /\ phase = IdlePhase
    /\ scraper = IdleScraper

\* a faulty LockFree: no mutual exclusion
LockUnguarded(t) == TRUE

\* with self._lock: a thread enters when no other thread holds the lock
LockFree(t) == lock = 0

\* A tick of the clock (a third of the cache's TTL) passes.  A cache operation,
\* which takes microseconds, begins and ends between two ticks.
Tick ==
    /\ lock = 0
    /\ cache' = Age(cache)
    /\ UNCHANGED <<extraVars, lock, thr, managerVars>>

\* a thread calls CacheManager.get(symbol)
ThreadGet(t, symbol) ==
    /\ thr[t].pc = "idle"
    /\ LockFree(t)
    /\ cache' = CacheGet(cache, symbol).cache
    /\ UNCHANGED <<extraVars, lock, thr, managerVars>>

\* a thread calls CacheManager.set(symbol, data, ttl=ttl): it takes the lock, and
\* TTLCache.__setitem__ first expires what is due
ThreadSetBegin(t, symbol, data, ttl) ==
    /\ thr[t].pc = "idle"
    /\ LockFree(t)
    /\ lock' = t
    /\ cache' = Expire(cache)
    /\ thr' = [thr EXCEPT ![t] = [IdleThread EXCEPT !.pc = "evict", !.symbol = symbol,
                                                     !.data = data, !.ttl = ttl]]
    /\ UNCHANGED <<extraVars, managerVars>>

\* ... then Cache.__setitem__ makes room for a new key
ThreadSetEvict(t) ==
    /\ thr[t].pc = "evict"
    /\ cache' = EvictWhileFull(cache, GenerateCacheKey(thr[t].symbol))
    /\ thr' = [thr EXCEPT ![t].pc = "store"]
    /\ UNCHANGED <<extraVars, lock, managerVars>>

\* ... then stores the entry, and set releases the lock and returns True
ThreadSetStore(t) ==
    /\ thr[t].pc = "store"
    /\ cache' = StoreItem(cache, GenerateCacheKey(thr[t].symbol),
                          CacheData(thr[t].data, thr[t].ttl))
    /\ lock' = IF lock = t THEN 0 ELSE lock
    /\ thr' = [thr EXCEPT ![t] = IdleThread]
    /\ UNCHANGED <<extraVars, managerVars>>

\* a thread calls CacheManager.invalidate(symbol): it takes the lock and deletes
\* the entry if the cache contains the key
ThreadInvalidate(t, symbol) ==
    /\ thr[t].pc = "idle"
    /\ LockFree(t)
    /\ lock' = t
    /\ cache' = CacheInvalidate(cache, symbol).cache
    /\ thr' = [thr EXCEPT ![t] = [IdleThread EXCEPT !.pc = "invalidated", !.symbol = symbol,
                                     !.ret = CacheInvalidate(cache, symbol).ret]]
    /\ UNCHANGED <<extraVars, managerVars>>

\* ... then invalidate releases the lock and returns
ThreadInvalidateReturns(t) ==
    /\ thr[t].pc = "invalidated"
    /\ lock' = IF lock = t THEN 0 ELSE lock
    /\ thr' = [thr EXCEPT ![t] = IdleThread]
    /\ UNCHANGED <<extraVars, cache, managerVars>>

\* a thread calls CacheManager.clear_all()
ThreadClearAll(t) ==
    /\ thr[t].pc = "idle"
    /\ LockFree(t)
    /\ cache' = CacheClearAll(cache).cache
    /\ UNCHANGED <<extraVars, lock, thr, managerVars>>

CacheNext ==
    \/ Tick
    \/ \E t \in Threads, symbol \in CacheSymbols : ThreadGet(t, symbol)
    \/ \E t \in Threads, symbol \in CacheSymbols, data \in SetInputs, ttl \in TTLs :
          ThreadSetBegin(t, symbol, data, ttl)
    \/ \E t \in Threads : ThreadSetEvict(t)
    \/ \E t \in Threads : ThreadSetStore(t)
    \/ \E t \in Threads, symbol \in CacheSymbols : ThreadInvalidate(t, symbol)
    \/ \E t \in Threads : ThreadInvalidateReturns(t)
    \/ \E t \in Threads : ThreadClearAll(t)

\* the CacheManager under direct concurrent callers
CacheSpec == CacheInit /\ [][CacheNext]_vars

\* ---------------------------------------------------------- ScraperManager
Range(f) == { f[i] : i \in DOMAIN f }

Min(a, b) == IF a < b THEN a ELSE b

\* self.scrapers: the registered providers
Scrapers == Providers

\* self.default_priority
DefaultPriority == <<"yahoo", "marketwatch">>

\* preferred_sources arguments (<<>> stands for None)
PreferredLists ==
    { <<>>, <<"marketwatch", "yahoo">>, <<"bogus">> }

\* symbol.upper().strip()
Canonical(raw) == Strip(Upper(raw))

\* a faulty SourcesToTry: the preferred sources are not looked at
SourcesToTryDefault(pref) == DefaultPriority

\* sources_to_try: preferred_sources or default_priority, registered names only
SourcesToTry(pref) ==
    SelectSeq(IF pref # <<>> THEN pref ELSE DefaultPriority, LAMBDA src : src \in Scrapers)

\* normalized = symbol.strip().upper()
Normalized(symbol) == Upper(Strip(symbol))

\* BaseScraper._validate_symbol accepts the symbol
ValidSymbol(symbol) ==
    /\ symbol # <<>>
    /\ Normalized(symbol) # <<>>
    /\ Len(Normalized(symbol)) <= MaxSymbolLen

\* record counts of the providers' answers
RecordCounts == {0, MaxRecords}

\* How one scrape_dividend_data call can end: a response with n records, or one
\* of the exceptions of base_scraper.  An invalid symbol is refused with a
\* ScraperError.
ScrapeOutcomes(symbol) ==
    IF ~ValidSymbol(symbol)
    THEN { [kind |-> "ScraperError", n |-> 0] }
    ELSE { [kind |-> "response", n |-> n] : n \in RecordCounts }
         \cup { [kind |-> "ScraperError", n |-> 0], [kind |-> "Exception", n |-> 0] }
         \cup { [kind |-> "RateLimitError", n |-> 0] }

\* a faulty DedupLists: only the first name attempted is kept
FirstOnly(seq) == { <<seq[1]>> }

\* list(set(sources_attempted)): each name once, in the set's iteration order
DedupLists(seq) ==
    { f \in [1..Cardinality(Range(seq)) -> Range(seq)] : Range(f) = Range(seq) }

\* a faulty UpdateScraperStats: every attempt is counted twice
CountTwice(stats, source_name, success) ==
    IF source_name \notin DOMAIN stats
    THEN stats
    ELSE IF success
         THEN [stats EXCEPT ![source_name].success_count = @ + 2]
         ELSE [stats EXCEPT ![source_name].error_count = @ + 2]

\* _update_scraper_stats
UpdateScraperStats(stats, source_name, success) ==
    IF source_name \notin DOMAIN stats
    THEN stats
    ELSE IF success
         THEN [stats EXCEPT ![source_name].success_count = @ + 1]
         ELSE [stats EXCEPT ![source_name].error_count = @ + 1]

\* a faulty HasRecords: an answer without records counts as data
HasRecordsAny(result) == TRUE

\* result and result.total_count > 0
HasRecords(result) == result # NoResult /\ result.total_count > 0

\* a faulty ShouldCache: the result is stored whatever use_cache says
ShouldCacheAlways(result, enabled) == HasRecords(result)

\* if result: ... if result.total_count > 0 and self.use_cache
ShouldCache(result, enabled) == HasRecords(result) /\ enabled

\* a faulty EmptyResponse: it names a successful source
EmptyResponseSourced(symbol, attempted) ==
    DividendCalendarResponse(symbol, <<>>, 0, attempted, DefaultPriority[1])

\* the empty response built when no provider produced data
EmptyResponse(symbol, attempted) ==
    DividendCalendarResponse(symbol, <<>>, 0, attempted, NoneStr)

\* a faulty ConcurrentSources: the sources already attempted are launched again
ConcurrentSourcesAgain(sources, attempted) ==
    SubSeq(sources, 1, Min(MaxConcurrent, Len(sources)))

\* _try_concurrent_scraping, up to the creation of the tasks: the providers launched
ConcurrentSources(sources, attempted) ==
    LET remaining_sources == SelectSeq(sources, LAMBDA src : src \notin Range(attempted))
    IN SubSeq(remaining_sources, 1, Min(MaxConcurrent, Len(remaining_sources)))

\* The sequential loop is over without a usable answer: the concurrent phase is
\* tried, and when it launches nothing the empty response is returned.
AllFailed(cl) ==
    LET launched == ConcurrentSources(SourcesToTry(cl.pref), cl.attempted) IN
    IF launched = <<>>
    THEN [cl EXCEPT !.pc = "done",
                    !.result = EmptyResponse(Canonical(cl.raw), cl.attempted)]
    ELSE [cl EXCEPT !.pc = "concurrent", !.attempted = @ \o launched]

\* a faulty NextSource: the provider's exception leaves get_dividend_data
Propagate(cl) == [cl EXCEPT !.pc = "raised"]

\* a faulty NextSource: the source that has just been tried is tried once more
SameSourceAgain(cl) ==
    LET sources == SourcesToTry(cl.pref) IN
    IF cl.idx < Len(sources)
    THEN [cl EXCEPT !.pc = "await", !.idx = @ + 1,
                    !.attempted = Append(@, sources[cl.idx])]
    ELSE AllFailed(cl)

\* a faulty NextSource: the loop gives up after the first source
SkipRest(cl) ==
    [cl EXCEPT !.pc = "done", !.result = EmptyResponse(Canonical(cl.raw), cl.attempted)]

\* the sequential loop takes the source after the current one, if any
NextSource(cl) ==
    LET sources == SourcesToTry(cl.pref) IN
    IF cl.idx < Len(sources)
    THEN [cl EXCEPT !.pc = "await", !.idx = @ + 1,
                    !.attempted = Append(@, sources[cl.idx + 1])]
    ELSE AllFailed(cl)

\* a faulty Sleep: a sleep that no passing second brings to its end
SleepForever(cl) == [cl EXCEPT !.pc = "sleep", !.wake = -1]

\* a faulty Sleep: the loop goes on to the next source at once
NoSleep(cl) == NextSource(cl)

\* await asyncio.sleep(2) in the handler of RateLimitError
Sleep(cl) == [cl EXCEPT !.pc = "sleep", !.wake = Backoff]

\* get_dividend_data from its first line to its first suspension, with
\* self.use_cache = enabled: the cache and the coroutine afterwards
Entered(raw, pref, kind, enabled) ==
    LET symbol == Canonical(raw)
        g == IF enabled THEN CacheGet(cache, symbol)
                        ELSE [cache |-> cache, ret |-> NoResult]
        sources == SourcesToTry(pref)
        cl == [IdleCall EXCEPT !.raw = raw, !.pref = pref, !.kind = kind]
    IN [cache |-> g.cache,
        call |-> IF g.ret # NoResult
                 THEN [cl EXCEPT !.pc = "done", !.result = g.ret]
                 ELSE IF sources = <<>>
                      THEN [cl EXCEPT !.pc = "raised"]
                      ELSE [cl EXCEPT !.pc = "await", !.idx = 1,
                                      !.attempted = <<sources[1]>>]]

Enter(c, raw, pref, kind) ==
    LET e == Entered(raw, pref, kind, use_cache)
    IN /\ cache' = e.cache
       /\ calls' = [calls EXCEPT ![c] = e.call]

\* 1 when get_dividend_data(raw, pref), started now, goes to a provider; 0 when
\* it returns from the cache or raises before
CostWith(raw, pref, enabled) ==
    IF \/ enabled /\ Contains(cache, GenerateCacheKey(Canonical(raw)))
       \/ SourcesToTry(pref) = <<>>
    THEN 0 ELSE 1

Cost(raw, pref) == CostWith(raw, pref, use_cache)

RECURSIVE TotalCost(_, _)
TotalCost(symbols, pref) ==
    IF symbols = <<>> THEN 0
    ELSE Cost(Head(symbols), pref) + TotalCost(Tail(symbols), pref)

\* a caller awaits scraper_manager.get_dividend_data(raw, pref)
GetDividendData(c, raw, pref) ==
    /\ ready = <<>>
    /\ budget >= Cost(raw, pref)
    /\ c = 1
    /\ batch.pc = "idle"
    /\ \A d \in CallIds : calls[d].pc = "idle" /\ route[d].pc = "idle"
    /\ Enter(c, raw, pref, "single")
    /\ budget' = budget - Cost(raw, pref)
    /\ UNCHANGED <<extraVars, lock, thr, use_cache, scraper_stats, ready, batch>>

\* await scraper.scrape_dividend_data(symbol) answering with n records
Scrape(c, n) ==
    ScraperResponse(Canonical(calls[c].raw), SourcesToTry(calls[c].pref)[calls[c].idx], n)

\* the provider's answer with n >= 1 records arrives: the call stores and returns it
ScrapeSucceeds(c, n) ==
    /\ ready = <<>>
    /\ calls[c].pc = "await"
    /\ [kind |-> "response", n |-> n] \in ScrapeOutcomes(Canonical(calls[c].raw))
    /\ HasRecords(Scrape(c, n))
    /\ LET cl == calls[c]
           symbol == Canonical(cl.raw)
           source_name == SourcesToTry(cl.pref)[cl.idx]
       IN \E att \in DedupLists(cl.attempted) :
            LET result == [Scrape(c, n) EXCEPT
                              !.successful_source = source_name,
                              !.sources_attempted = att]
            IN /\ scraper_stats' = UpdateScraperStats(scraper_stats, source_name, TRUE)
               /\ cache' = IF ShouldCache(result, use_cache)
                           THEN CacheSet(cache, symbol, result, CacheTTL)
                           ELSE cache
               /\ calls' = [calls EXCEPT ![c] = [cl EXCEPT !.pc = "done",
                                                           !.result = result]]
    /\ UNCHANGED <<extraVars, lock, thr, use_cache, ready, batch, budget>>

\* a faulty ScrapeEmpty: an answer without records is counted as a failure
ScrapeEmptyCounted(c, n) ==
    /\ ready = <<>>
    /\ calls[c].pc = "await"
    /\ [kind |-> "response", n |-> n] \in ScrapeOutcomes(Canonical(calls[c].raw))
    /\ ~HasRecords(Scrape(c, n))
    /\ scraper_stats' = UpdateScraperStats(scraper_stats,
                            SourcesToTry(calls[c].pref)[calls[c].idx], FALSE)
    /\ calls' = [calls EXCEPT ![c] = NextSource(calls[c])]
    /\ UNCHANGED <<extraVars, cacheVars, use_cache, ready, batch, budget>>

\* the provider answers with no usable records: no statistics, next source
ScrapeEmpty(c, n) ==
    /\ ready = <<>>
    /\ calls[c].pc = "await"
    /\ [kind |-> "response", n |-> n] \in ScrapeOutcomes(Canonical(calls[c].raw))
    /\ ~HasRecords(Scrape(c, n))
    /\ calls' = [calls EXCEPT ![c] = NextSource(calls[c])]
    /\ UNCHANGED <<extraVars, cacheVars, use_cache, scraper_stats, ready, batch, budget>>

\* the provider raises RateLimitError: a failure is counted and the call sleeps
ScrapeRateLimited(c) ==
    /\ ready = <<>>
    /\ calls[c].pc = "await"
    /\ [kind |-> "RateLimitError", n |-> 0] \in ScrapeOutcomes(Canonical(calls[c].raw))
    /\ scraper_stats' = UpdateScraperStats(scraper_stats,
                            SourcesToTry(calls[c].pref)[calls[c].idx], FALSE)
    /\ calls' = [calls EXCEPT ![c] = Sleep(calls[c])]
    /\ UNCHANGED <<extraVars, cacheVars, use_cache, ready, batch, budget>>

\* a second passes for the sleeping calls
SecondPasses ==
    /\ ready = <<>>
    /\ \E c \in CallIds : calls[c].pc = "sleep" /\ calls[c].wake > 0
    /\ calls' = [c \in CallIds |->
                   IF calls[c].pc = "sleep" /\ calls[c].wake > 0
                   THEN [calls[c] EXCEPT !.wake = @ - 1]
                   ELSE calls[c]]
    /\ UNCHANGED <<extraVars, cacheVars, use_cache, scraper_stats, ready, batch, budget>>

\* the sleep is over: next source
WakeUp(c) ==
    /\ ready = <<>>
    /\ calls[c].pc = "sleep"
    /\ calls[c].wake = 0
    /\ calls' = [calls EXCEPT ![c] = NextSource(calls[c])]
    /\ UNCHANGED <<extraVars, cacheVars, use_cache, scraper_stats, ready, batch, budget>>

\* the provider raises ScraperError or another exception: a failure is counted,
\* next source
ScrapeFails(c, kind) ==
    /\ ready = <<>>
    /\ calls[c].pc = "await"
    /\ [kind |-> kind, n |-> 0] \in ScrapeOutcomes(Canonical(calls[c].raw))
    /\ scraper_stats' = UpdateScraperStats(scraper_stats,
                            SourcesToTry(calls[c].pref)[calls[c].idx], FALSE)
    /\ calls' = [calls EXCEPT ![c] = NextSource(calls[c])]
    /\ UNCHANGED <<extraVars, cacheVars, use_cache, ready, batch, budget>>

\* the caller of a single get_dividend_data takes its result or its exception
Release(c) ==
    /\ ready = <<>>
    /\ calls[c].kind = "single"
    /\ calls[c].pc \in {"done", "raised"}
    /\ calls' = [calls EXCEPT ![c] = IdleCall]
    /\ UNCHANGED <<extraVars, cacheVars, use_cache, scraper_stats, ready, batch, budget>>

\* symbol lists passed to get_multiple_symbols
SymbolLists == UNION { [1..k -> RawSymbols] : k \in 1..Cardinality(CallIds) }

\* get_multiple_symbols up to its gather: one task per element of the list; the
\* tasks run in the order of their creation, before anything else
GetMultipleSymbols(symbols, pref) ==
    /\ ready = <<>>
    /\ batch.pc = "idle"
    /\ budget >= TotalCost(symbols, pref)
    /\ \A c \in CallIds : calls[c].pc = "idle"
    /\ calls' = [c \in CallIds |->
                   IF c <= Len(symbols)
                   THEN [IdleCall EXCEPT !.pc = "created", !.raw = symbols[c],
                                         !.pref = pref, !.kind = "batch"]
                   ELSE calls[c]]
    /\ ready' = [i \in 1..Len(symbols) |-> i]
    /\ batch' = [IdleBatch EXCEPT !.pc = "gather", !.tasks = ready']
    /\ budget' = budget - TotalCost(symbols, pref)
    /\ UNCHANGED <<extraVars, cacheVars, use_cache, scraper_stats>>

\* the event loop runs the next created task up to its first suspension
RunTask ==
    /\ ready # <<>>
    /\ Enter(Head(ready), calls[Head(ready)].raw, calls[Head(ready)].pref, "batch")
    /\ ready' = Tail(ready)
    /\ UNCHANGED <<extraVars, lock, thr, use_cache, scraper_stats, batch, budget>>

\* a faulty ResultKey: the mapping is keyed by the canonical symbol
ResultKeyCanonical(raw) == Canonical(raw)

\* for symbol, result in zip(symbols, results): the key of results[symbol]
ResultKey(raw) == raw

\* results[symbol] for the tasks 1..k taken in order: later tasks of the same
\* symbol overwrite earlier ones
RECURSIVE BatchResults(_, _)
BatchResults(tasks, k) ==
    IF k = 0 THEN <<>>
    ELSE LET cl == calls[tasks[k]]
             entry == IF cl.pc = "raised" THEN EmptyResponse(cl.raw, <<>>)
                                          ELSE cl.result
             before == BatchResults(tasks, k - 1)
         IN [s \in DOMAIN before \cup {ResultKey(cl.raw)} |->
                IF s = ResultKey(cl.raw) THEN entry ELSE before[s]]

\* gather returns once every task has ended; the mapping is built and returned
GatherReturns ==
    /\ ready = <<>>
    /\ batch.pc = "gather"
    /\ \A i \in 1..Len(batch.tasks) : calls[batch.tasks[i]].pc \in {"done", "raised"}
    /\ batch' = [batch EXCEPT !.pc = "done",
                              !.results = BatchResults(batch.tasks, Len(batch.tasks))]
    /\ UNCHANGED <<extraVars, cacheVars, use_cache, scraper_stats, calls, ready, budget>>

\* the caller of get_multiple_symbols takes the mapping
ReleaseBatch ==
    /\ ready = <<>>
    /\ batch.pc = "done"
    /\ batch' = IdleBatch
    /\ calls' = [c \in CallIds |-> IF calls[c].kind = "batch" THEN IdleCall ELSE calls[c]]
    /\ UNCHANGED <<extraVars, cacheVars, use_cache, scraper_stats, ready, budget>>

\* a faulty ClearCache: the health counters are cleared with the cache
ClearCacheAndStats ==
    /\ ready = <<>>
    /\ cache # <<>>
    /\ cache' = IF use_cache THEN CacheClearAll(cache).cache ELSE cache
    /\ scraper_stats' = [p \in Providers |-> [success_count |-> 0, error_count |-> 0]]
    /\ UNCHANGED <<extraVars, lock, thr, use_cache, calls, ready, batch, budget>>

\* ScraperManager.clear_cache
ClearCache ==
    /\ ready = <<>>
    /\ cache # <<>>
    /\ cache' = IF use_cache THEN CacheClearAll(cache).cache ELSE cache
    /\ UNCHANGED <<extraVars, lock, thr, managerVars>>

\* invalidate_symbol_cache(symbol) with self.use_cache = enabled: the cache
\* afterwards and the value returned
SymbolCacheInvalidated(c, symbol, enabled) ==
    IF enabled THEN CacheInvalidate(c, symbol) ELSE [cache |-> c, ret |-> FALSE]

\* ScraperManager.invalidate_symbol_cache
InvalidateSymbolCache(symbol) ==
    /\ ready = <<>>
    /\ cache # <<>>
    /\ cache' = SymbolCacheInvalidated(cache, symbol, use_cache).cache
    /\ UNCHANGED <<extraVars, lock, thr, managerVars>>

Next ==
    \/ \E c \in CallIds, raw \in RawSymbols, pref \in PreferredLists :
          GetDividendData(c, raw, pref)
    \/ \E c \in CallIds, n \in RecordCounts : ScrapeSucceeds(c, n)
    \/ \E c \in CallIds, n \in RecordCounts : ScrapeEmpty(c, n)
    \/ \E c \in CallIds : ScrapeRateLimited(c)
    \/ SecondPasses
    \/ \E c \in CallIds : WakeUp(c)
    \/ \E c \in CallIds, kind \in {"ScraperError", "Exception"} : ScrapeFails(c, kind)
    \/ \E c \in CallIds : Release(c)
    \/ \E symbols \in SymbolLists, pref \in PreferredLists :
          GetMultipleSymbols(symbols, pref)
    \/ RunTask
    \/ GatherReturns
    \/ ReleaseBatch
    \/ ClearCache
    \/ \E symbol \in RawSymbols : InvalidateSymbolCache(symbol)

\* The ScraperManager with its callers, over the shared cache.  A behaviour
\* lasts less than a tick, so that no entry expires in it.
Spec == Init /\ [][Next]_vars

\* ------------------------------------------- the route GET /dividend/{symbol}
\* valid_sources
ValidSources == {"yahoo", "marketwatch"}

\* a symbol of one character more than a valid symbol may have
LongSymbol == [i \in 1..(MaxSymbolLen + 1) |-> "B"]

\* symbol path parameters of the requests
RouteSymbols == RawSymbols \cup {LongSymbol}

\* sources query parameters of the requests (<<>> stands for None)
RouteSources == PreferredLists \cup { <<"yahoo", "bogus">> }

\* a faulty Rejection: a list is refused only when none of its names is valid
RejectionIfNoneValid(symbol, sources) ==
    IF symbol = <<>> \/ Strip(symbol) = <<>>
    THEN "INVALID_SYMBOL"
    ELSE IF sources # <<>> /\ Range(sources) \cap ValidSources = {}
         THEN "INVALID_SOURCES"
         ELSE NoneStr

\* the HTTPException of the validation at the head of the handler, if any
Rejection(symbol, sources) ==
    IF symbol = <<>> \/ Strip(symbol) = <<>>
    THEN "INVALID_SYMBOL"
    ELSE IF sources # <<>> /\ Range(sources) \ ValidSources # {}
         THEN "INVALID_SOURCES"
         ELSE NoneStr

\* the response of the handler
Respond(symbol, sources, status, error_code, body) ==
    [IdleRoute EXCEPT !.pc = "responded", !.symbol = symbol, !.sources = sources,
                      !.status = status, !.error_code = error_code, !.body = body]

\* the response once scraper_manager.get_dividend_data has returned or raised:
\* the result as it is, or the ScraperError as a 503
Outcome(symbol, sources, call) ==
    IF call.pc = "raised"
    THEN Respond(symbol, sources, 503, "SCRAPER_ERROR", NoResult)
    ELSE Respond(symbol, sources, 200, NoneStr, call.result)

\* the handler from its first line to its first suspension, which is in
\* get_dividend_data, or to its response when there is none
RouteHandler(c, symbol, sources, cache_wanted) ==
    /\ LET error_code == Rejection(symbol, sources)
           enabled == IF ~cache_wanted THEN FALSE ELSE use_cache
           e == Entered(symbol, sources, "route", enabled)
       IN IF error_code # NoneStr
          THEN /\ route' = [route EXCEPT ![c] = Respond(symbol, sources, 400, error_code, NoResult)]
               /\ UNCHANGED <<cacheVars, managerVars, statsVars>>
          ELSE /\ budget >= CostWith(symbol, sources, enabled)
               /\ budget' = budget - CostWith(symbol, sources, enabled)
               /\ cache' = e.cache
               /\ IF e.call.pc = "await"
                  THEN /\ calls' = [calls EXCEPT ![c] = e.call]
                       /\ use_cache' = enabled
                       /\ route' = [route EXCEPT ![c] =
                             [IdleRoute EXCEPT !.pc = "await", !.symbol = symbol,
                                               !.sources = sources,
                                               !.use_cache = cache_wanted,
                                               !.original_cache_setting = use_cache]]
                  ELSE /\ route' = [route EXCEPT ![c] = Outcome(symbol, sources, e.call)]
                       /\ UNCHANGED <<calls, use_cache>>
               /\ UNCHANGED <<lock, thr, scraper_stats, ready, batch, statsVars>>

\* a request arrives while no other request or call is under way
RouteGetDividendData(c, symbol, sources, cache_wanted) ==
    /\ c = 1
    /\ ready = <<>>
    /\ batch.pc = "idle"
    /\ \A d \in CallIds : calls[d].pc = "idle" /\ route[d].pc = "idle"
    /\ RouteHandler(c, symbol, sources, cache_wanted)

\* get_dividend_data has returned or raised: the finally clause restores
\* use_cache and the handler responds
RouteReturns(c) ==
    /\ route[c].pc = "await"
    /\ calls[c].kind = "route"
    /\ calls[c].pc \in {"done", "raised"}
    /\ use_cache' = route[c].original_cache_setting
    /\ route' = [route EXCEPT ![c] = Outcome(route[c].symbol, route[c].sources, calls[c])]
    /\ calls' = [calls EXCEPT ![c] = IdleCall]
    /\ UNCHANGED <<cacheVars, scraper_stats, ready, batch, budget, statsVars>>

\* the client has the response
RouteRelease(c) ==
    /\ route[c].pc = "responded"
    /\ route' = [route EXCEPT ![c] = IdleRoute]
    /\ UNCHANGED <<cacheVars, managerVars, statsVars>>

RouteNext ==
    \/ \E c \in CallIds, symbol \in RouteSymbols, sources \in RouteSources,
          cache_wanted \in BOOLEAN :
          RouteGetDividendData(c, symbol, sources, cache_wanted)
    \/ \E c \in CallIds, raw \in RawSymbols, pref \in PreferredLists :
          GetDividendData(c, raw, pref)
    \/ \E c \in CallIds : Release(c)
    \/ \E c \in CallIds, n \in RecordCounts : ScrapeSucceeds(c, n)
    \/ \E c \in CallIds, n \in RecordCounts : ScrapeEmpty(c, n)
    \/ \E c \in CallIds : ScrapeRateLimited(c)
    \/ SecondPasses
    \/ \E c \in CallIds : WakeUp(c)
    \/ \E c \in CallIds, kind \in {"ScraperError", "Exception"} : ScrapeFails(c, kind)
    \/ \E c \in CallIds : RouteReturns(c)
    \/ \E c \in CallIds : RouteRelease(c)

\* the route with its clients and the ScraperManager with its direct callers,
\* over the shared cache
RouteSpec == Init /\ [][RouteNext]_vars

\* ---------------------------------------------------------------------------
\* ScraperManager.get_scraper_stats

\* a faulty Round2: the digits after the second decimal are cut off
RoundDown(num, den) == (10000 * num) \div den

\* round(num / den * 100, 2), in hundredths of a percent: the nearest hundredth,
\* a tie going to the even one
Round2(num, den) ==
    LET q == (10000 * num) \div den
        r == (10000 * num) % den
    IN IF 2 * r < den THEN q
       ELSE IF 2 * r > den THEN q + 1
       ELSE IF q % 2 = 0 THEN q ELSE q + 1

\* one entry of scraper_performance; success_rate_percent is in hundredths
ScraperPerformance(st) ==
    LET total_requests == st.success_count + st.error_count
        success_rate == IF total_requests > 0
                        THEN Round2(st.success_count, total_requests)
                        ELSE 0
    IN [success_count |-> st.success_count,
        error_count |-> st.error_count,
        total_requests |-> total_requests,
        success_rate_percent |-> success_rate]

GetScraperStatsResult(st, enabled) ==
    [cache_enabled |-> enabled,
     cache_ttl |-> CacheTTL,
     available_scrapers |-> Scrapers,
     default_priority |-> DefaultPriority,
     scraper_performance |-> [name \in DOMAIN st |-> ScraperPerformance(st[name])]]

\* scraper_manager.get_scraper_stats()
GetScraperStats ==
    /\ stats_response' = GetScraperStatsResult(scraper_stats, use_cache)
    /\ UNCHANGED <<cacheVars, managerVars, route, validation, phase, scraper>>

\* the health counters after any number of recorded attempts
StatsInit ==
    /\ cache = <<>>
    /\ lock = 0
    /\ thr = [t \in Threads |-> IdleThread]
    /\ use_cache \in BOOLEAN
    /\ scraper_stats \in [Providers -> [success_count : 0..MaxCount,
                                        error_count : 0..MaxCount]]
    /\ calls = [c \in CallIds |-> IdleCall]
    /\ ready = <<>>
    /\ batch = IdleBatch
    /\ budget = MaxRequests
    /\ route = [c \in CallIds |-> IdleRoute]
    /\ stats_response = NoResult
    /\ validation = NoValidation
    /\ phase = IdlePhase
    /\ scraper = IdleScraper

StatsNext == GetScraperStats

StatsSpec == StatsInit /\ [][StatsNext]_vars

\* ---------------------------------------------------------------------------
\* The symbol's way: get_dividend_data canonicalises it, the scraper validates it

Chars == {"a", "A", "B", " "}

\* the strings of at most n characters
Strings(n) == UNION { [1..k -> Chars] : k \in 0..n }

\* the symbol strings a caller can pass: short ones, and ones of MaxSymbolLen
\* characters and more, with and without blanks around them
SymbolInputs ==
    Strings(MaxLen)
    \cup { [i \in 1..k |-> "b"] : k \in MaxSymbolLen..(MaxSymbolLen + 1) }
    \cup { <<" ">> \o [i \in 1..k |-> "b"] \o <<" ">> : k \in MaxSymbolLen..(MaxSymbolLen + 1) }

\* get_dividend_data: symbol = symbol.upper().strip()
Canonicalize ==
    /\ validation.pc \in {"raw", "canonical"}
    /\ validation' = [validation EXCEPT !.pc = "canonical", !.symbol = Canonical(@)]
    /\ UNCHANGED <<cacheVars, managerVars, route, stats_response, phase, scraper>>

\* BaseScraper._validate_symbol(symbol), called by the scraper with the symbol
\* of get_dividend_data or by a caller of its own: the normalized symbol is
\* returned or ScraperError raised
ValidateSymbol ==
    /\ validation.pc \in {"raw", "canonical", "returned"}
    /\ validation' = IF ValidSymbol(validation.symbol)
                     THEN [validation EXCEPT !.pc = "returned",
                                             !.symbol = Normalized(@)]
                     ELSE [validation EXCEPT !.pc = "raised"]
    /\ UNCHANGED <<cacheVars, managerVars, route, stats_response, phase, scraper>>

\* a caller holds a symbol string
SymbolInit ==
    /\ cache = <<>>
    /\ lock = 0
    /\ thr = [t \in Threads |-> IdleThread]
    /\ use_cache \in BOOLEAN
    /\ scraper_stats = [p \in Providers |-> [success_count |-> 0, error_count |-> 0]]
    /\ calls = [c \in CallIds |-> IdleCall]
    /\ ready = <<>>
    /\ batch = IdleBatch
    /\ budget = MaxRequests
    /\ route = [c \in CallIds |-> IdleRoute]
    /\ stats_response = NoResult
    /\ \E raw \in SymbolInputs : validation = [pc |-> "raw", raw |-> raw, symbol |-> raw]
    /\ phase = IdlePhase
    /\ scraper = IdleScraper

SymbolNext == Canonicalize \/ ValidateSymbol

SymbolSpec == SymbolInit /\ [][SymbolNext]_vars

\* ---------------------------------------------------------------------------
\* ScraperManager._try_concurrent_scraping, called on its own
\*
\* A task is [source_name, will, state]: will is how the provider's answer is
\* going to end (one of ScrapeOutcomes; the 15 s timeout of
\* _scrape_with_timeout ends it as a ScraperError), state is "running", "done"
\* or "cancelled".  asyncio.wait returns when a task is done, or after its 30 s
\* with no task done.

\* arguments of the calls
PhaseSources == { <<"yahoo", "marketwatch">>, <<"marketwatch", "yahoo">>,
                  <<"bogus", "yahoo">> }
PhaseAttempted == { <<>>, <<"yahoo">>, <<"yahoo", "marketwatch">> }
PhaseConcurrency == 1..MaxConcurrent

\* a faulty LaunchedSources: a task for every registered source of the list
LaunchedAll(sources, attempted, max_concurrent) ==
    SelectSeq(sources, LAMBDA src : src \in Scrapers)

\* the sources for which a task is created
LaunchedSources(sources, attempted, max_concurrent) ==
    LET remaining_sources == SelectSeq(sources, LAMBDA src : src \notin Range(attempted))
        sources_to_try == SubSeq(remaining_sources, 1,
                                 Min(max_concurrent, Len(remaining_sources)))
    IN SelectSeq(sources_to_try, LAMBDA src : src \in Scrapers)

\* the loop over the tasks once asyncio.wait has returned, from task i on: the
\* health counters afterwards and the value returned
RECURSIVE CheckTasks(_, _, _, _)
CheckTasks(tasks, i, stats, symbol) ==
    IF i > Len(tasks)
    THEN [stats |-> stats, result |-> NoResult]
    ELSE LET task == tasks[i]
             result == ScraperResponse(symbol, task.source_name, task.will.n)
         IN IF task.state # "done"
            THEN CheckTasks(tasks, i + 1, stats, symbol)
            ELSE IF task.will.kind # "response"
                 THEN CheckTasks(tasks, i + 1,
                                 UpdateScraperStats(stats, task.source_name, FALSE), symbol)
                 ELSE IF HasRecords(result)
                      THEN [stats |-> UpdateScraperStats(stats, task.source_name, TRUE),
                            result |-> [result EXCEPT !.successful_source = task.source_name]]
                      ELSE CheckTasks(tasks, i + 1, stats, symbol)

\* a faulty CancelPending: the pending tasks are left alone
CancelNone(tasks) == tasks

\* for task in pending: task.cancel()
CancelPending(tasks) ==
    [i \in DOMAIN tasks |->
       IF tasks[i].state = "running" THEN [tasks[i] EXCEPT !.state = "cancelled"]
       ELSE tasks[i]]

\* _try_concurrent_scraping is called: up to its return when nothing is left to
\* launch, or up to asyncio.wait
TryConcurrentScraping(symbol, sources, attempted, max_concurrent) ==
    /\ phase.pc = "idle"
    /\ budget > 0
    /\ LET launched == LaunchedSources(sources, attempted, max_concurrent) IN
       IF launched = <<>>
       THEN /\ phase' = [IdlePhase EXCEPT !.pc = "returned", !.symbol = symbol,
                                          !.sources_attempted = attempted]
            /\ UNCHANGED budget
       ELSE /\ \E wills \in [1..Len(launched) -> ScrapeOutcomes(symbol)] :
                 phase' = [IdlePhase EXCEPT
                             !.pc = "wait", !.symbol = symbol,
                             !.sources_attempted = attempted \o launched,
                             !.tasks = [i \in 1..Len(launched) |->
                                          [source_name |-> launched[i], will |-> wills[i],
                                           state |-> "running"]]]
            /\ budget' = budget - 1
    /\ UNCHANGED <<cacheVars, use_cache, scraper_stats, calls, ready, batch, route,
                   stats_response, validation, scraper>>

\* the provider of task i answers, raises or runs into its timeout
TaskCompletes(i) ==
    /\ phase.pc = "wait"
    /\ i \in DOMAIN phase.tasks
    /\ phase.tasks[i].state = "running"
    /\ phase' = [phase EXCEPT !.tasks[i].state = "done"]
    /\ UNCHANGED <<cacheVars, managerVars, route, stats_response, validation, scraper>>

\* asyncio.wait(..., return_when=FIRST_COMPLETED) returns once a task is done:
\* the pending tasks are cancelled, the done ones are checked in the order of
\* their launch, and the phase returns
WaitReturns ==
    /\ phase.pc = "wait"
    /\ \E i \in DOMAIN phase.tasks : phase.tasks[i].state = "done"
    /\ LET checked == CheckTasks(phase.tasks, 1, scraper_stats, phase.symbol) IN
       /\ scraper_stats' = checked.stats
       /\ phase' = [phase EXCEPT
                      !.pc = "returned",
                      !.result = checked.result,
                      !.tasks = CancelPending(@)]
    /\ UNCHANGED <<cacheVars, use_cache, calls, ready, batch, budget, route,
                   stats_response, validation, scraper>>

\* asyncio.wait returns after its 30 s with no task done: every task is pending
\* and is cancelled, and the phase returns None
PhaseTimesOut ==
    /\ phase.pc = "wait"
    /\ \A i \in DOMAIN phase.tasks : phase.tasks[i].state = "running"
    /\ phase' = [phase EXCEPT !.pc = "returned", !.tasks = CancelPending(@)]
    /\ UNCHANGED <<cacheVars, managerVars, route, stats_response, validation, scraper>>

\* the caller has the result
PhaseRelease ==
    /\ phase.pc = "returned"
    /\ phase' = IdlePhase
    /\ UNCHANGED <<cacheVars, managerVars, route, stats_response, validation, scraper>>

ConcurrentNext ==
    \/ \E sources \in PhaseSources, attempted \in PhaseAttempted,
          max_concurrent \in PhaseConcurrency :
          TryConcurrentScraping(<<"B">>, sources, attempted, max_concurrent)
    \/ \E i \in 1..MaxConcurrent : TaskCompletes(i)
    \/ WaitReturns
    \/ PhaseTimesOut
    \/ PhaseRelease

ConcurrentSpec == Init /\ [][ConcurrentNext]_vars

\* ---------------------------------------------------------------------------
\* MarketWatchScraper.scrape_dividend_data over BaseScraper._fetch_page
\*
\* Time is counted in ticks of half a second.  An exception is [kind], a parsed
\* page is [kind |-> "soup", amount].

\* what the server does with a request: an HTTP response, or none
HttpResponses ==
    { [kind |-> "response", status |-> 200, amount |-> n] : n \in {0, 1} }
    \cup { [kind |-> "response", status |-> 429, amount |-> 0],
           [kind |-> "response", status |-> 500, amount |-> 0],
           [kind |-> "ClientError", status |-> 0, amount |-> 0] }

\* the body of the try block of _fetch_page
FetchPageBody(http) ==
    IF http.kind = "ClientError"
    THEN [kind |-> "ClientError", amount |-> 0]
    ELSE IF http.status = 429
         THEN [kind |-> "RateLimitError", amount |-> 0]
         ELSE IF http.status # 200
              THEN [kind |-> "ScraperError", amount |-> 0]
              ELSE [kind |-> "soup", amount |-> http.amount]

\* _fetch_page: except aiohttp.ClientError and except Exception both raise a
\* ScraperError in place of what the body raised
FetchPage(http) ==
    LET r == FetchPageBody(http) IN
    IF r.kind = "soup" THEN r
    ELSE IF r.kind = "ClientError"
         THEN [kind |-> "ScraperError", amount |-> 0]
         ELSE [kind |-> "ScraperError", amount |-> 0]

\* _scrape_basic_dividend_info and _scrape_quote_page_dividends: the number of
\* records found on the page; an exception of _fetch_page is logged and dropped
PageDividends(fetched) ==
    IF fetched.kind = "soup" /\ fetched.amount > 0 THEN 1 ELSE 0

\* _respect_rate_limit for the request of task k on a page: the task sleeps for
\* the rest of the delay, or sets _last_request_time and sends the request
RespectRateLimit(sc, k, page) ==
    IF sc.since_last < RateLimitDelay
    THEN [sc EXCEPT !.tasks[k].pc = "sleep", !.tasks[k].page = page,
                    !.tasks[k].sleep_time = RateLimitDelay - sc.since_last]
    ELSE [sc EXCEPT !.tasks[k].pc = "request", !.tasks[k].page = page,
                    !.since_last = 0]

\* scrape_dividend_data(symbol) is called: the symbol is validated and the
\* first page is asked for
ScrapeDividendData(k, symbol) ==
    /\ scraper.tasks[k].pc = "idle"
    /\ scraper' =
         IF ~ValidSymbol(symbol)
         THEN [scraper EXCEPT !.tasks[k] =
                 [IdleScrape EXCEPT !.pc = "ended", !.symbol = symbol,
                                    !.outcome = [kind |-> "ScraperError", n |-> 0]]]
         ELSE RespectRateLimit([scraper EXCEPT !.tasks[k].symbol = symbol], k, "basic")
    /\ UNCHANGED <<cacheVars, managerVars, route, stats_response, validation, phase>>

\* half a second passes
ScraperTick ==
    /\ scraper' = [scraper EXCEPT
                     !.since_last = Min(@ + 1, RateLimitDelay),
                     !.tasks = [k \in Callers |->
                                  IF @[k].pc = "sleep" /\ @[k].sleep_time > 0
                                  THEN [@[k] EXCEPT !.sleep_time = @ - 1]
                                  ELSE @[k]]]
    /\ UNCHANGED <<cacheVars, managerVars, route, stats_response, validation, phase>>

\* asyncio.sleep(sleep_time) is over: _last_request_time is set and the request sent
SleepOver(k) ==
    /\ scraper.tasks[k].pc = "sleep"
    /\ scraper.tasks[k].sleep_time = 0
    /\ scraper' = [scraper EXCEPT !.tasks[k].pc = "request", !.since_last = 0]
    /\ UNCHANGED <<cacheVars, managerVars, route, stats_response, validation, phase>>

\* the request of task k is answered: the page gives its records, and the scrape
\* goes on to the quote page when it has none yet, or returns its response
HttpAnswers(k, http) ==
    /\ scraper.tasks[k].pc = "request"
    /\ LET task == scraper.tasks[k]
           n == PageDividends(FetchPage(http))
           seen == [scraper EXCEPT
                      !.tasks[k].rate_limited = @ \/ (http.kind = "response" /\ http.status = 429),
                      !.tasks[k].dividends = n]
       IN scraper' =
            IF task.page = "basic" /\ n = 0
            THEN RespectRateLimit(seen, k, "quote")
            ELSE [seen EXCEPT !.tasks[k].pc = "ended",
                              !.tasks[k].outcome = [kind |-> "response", n |-> n]]
    /\ UNCHANGED <<cacheVars, managerVars, route, stats_response, validation, phase>>

\* the caller has the response or the exception
ScrapeReturns(k) ==
    /\ scraper.tasks[k].pc = "ended"
    /\ scraper' = [scraper EXCEPT !.tasks[k] = IdleScrape]
    /\ UNCHANGED <<cacheVars, managerVars, route, stats_response, validation, phase>>

ScraperNext ==
    \/ \E k \in Callers, symbol \in RouteSymbols : ScrapeDividendData(k, symbol)
    \/ ScraperTick
    \/ \E k \in Callers : SleepOver(k)
    \/ \E k \in Callers, http \in HttpResponses : HttpAnswers(k, http)
    \/ \E k \in Callers : ScrapeReturns(k)

\* one MarketWatchScraper with the calls the ScraperManager makes on it
ScraperSpec == Init /\ [][ScraperNext]_vars

\* ---------------------------------------------------------------------------
\* get_dividend_data called with preferred source lists that name a provider
\* more than once

\* preferred_sources arguments, one of them with a repeated name
RepeatingLists == PreferredLists \cup { <<"yahoo", "yahoo">> }

PreferenceNext ==
    \/ \E c \in CallIds, raw \in RawSymbols, pref \in RepeatingLists :
          GetDividendData(c, raw, pref)
    \/ \E c \in CallIds, n \in RecordCounts : ScrapeSucceeds(c, n)
    \/ \E c \in CallIds, n \in RecordCounts : ScrapeEmpty(c, n)
    \/ \E c \in CallIds : ScrapeRateLimited(c)
    \/ SecondPasses
    \/ \E c \in CallIds : WakeUp(c)
    \/ \E c \in CallIds, kind \in {"ScraperError", "Exception"} : ScrapeFails(c, kind)
    \/ \E c \in CallIds : Release(c)

\* single get_dividend_data calls, one after the other, over the shared cache
PreferenceSpec == Init /\ [][PreferenceNext]_vars

\* ---------------------------------------------------------------------------
\* every public operation of the ScraperManager, get_scraper_stats included,
\* for one symbol and the default sources

\* symbol lists passed to get_multiple_symbols
HealthSymbolLists == { <<<<"B">>>>, <<<<"B">>, <<"B">>>> }

HealthNext ==
    \/ \E c \in CallIds : GetDividendData(c, <<"B">>, <<>>)
    \/ \E c \in CallIds, n \in RecordCounts : ScrapeSucceeds(c, n)
    \/ \E c \in CallIds, n \in RecordCounts : ScrapeEmpty(c, n)
    \/ \E c \in CallIds : ScrapeRateLimited(c)
    \/ SecondPasses
    \/ \E c \in CallIds : WakeUp(c)
    \/ \E c \in CallIds, kind \in {"ScraperError", "Exception"} : ScrapeFails(c, kind)
    \/ \E c \in CallIds : Release(c)
    \/ \E symbols \in HealthSymbolLists : GetMultipleSymbols(symbols, <<>>)
    \/ RunTask
    \/ GatherReturns
    \/ ReleaseBatch
    \/ ClearCache
    \/ InvalidateSymbolCache(<<"B">>)
    \/ GetScraperStats

\* the ScraperManager under callers of all its public operations
HealthSpec == Init /\ [][HealthNext]_vars

\* ---------------------------------------------------------------------------
\* ScraperManager._update_scraper_stats on the whole health records
\*
\* The counters of scraper_stats above are the success_count and error_count of
\* these records.  A time is Datetime(0), the moment of the update.

\* the record of a provider that has not been attempted
FreshStats ==
    [success_count |-> 0, error_count |-> 0, last_success |-> NoneDt,
     last_error |-> NoneDt, last_error_message |-> NoneStr]

\* source_name and error arguments (NoneStr stands for error=None)
UpdateNames == Providers \cup {"bogus"}
UpdateErrors == {NoneStr, "", "Timeout scraping"}

\* a faulty UpdateStatsRecord: an unknown name gets a record of its own
UpdateStatsRecordAdding(stats, source_name, success, error) ==
    LET old == IF source_name \in DOMAIN stats THEN stats[source_name] ELSE FreshStats
        new == IF success
               THEN [old EXCEPT !.success_count = @ + 1, !.last_success = Datetime(0)]
               ELSE [old EXCEPT !.error_count = @ + 1, !.last_error = Datetime(0)]
    IN [name \in DOMAIN stats \cup {source_name} |->
           IF name = source_name THEN new ELSE stats[name]]

\* _update_scraper_stats(source_name, success, error): the records afterwards
UpdateStatsRecord(stats, source_name, success, error) ==
    IF source_name \notin DOMAIN stats
    THEN stats
    ELSE IF success
         THEN [stats EXCEPT ![source_name].success_count = @ + 1,
                            ![source_name].last_success = Datetime(0)]
         ELSE IF error # NoneStr /\ error # ""
              THEN [stats EXCEPT ![source_name].error_count = @ + 1,
                                 ![source_name].last_error = Datetime(0),
                                 ![source_name].last_error_message = error]
              ELSE [stats EXCEPT ![source_name].error_count = @ + 1,
                                 ![source_name].last_error = Datetime(0)]

\* a call of _update_scraper_stats
UpdateStats(source_name, success, error) ==
    /\ \A name \in DOMAIN scraper_stats :
          /\ scraper_stats[name].success_count < MaxCount
          /\ scraper_stats[name].error_count < MaxCount
    /\ scraper_stats' = UpdateStatsRecord(scraper_stats, source_name, success, error)
    /\ UNCHANGED <<extraVars, cacheVars, use_cache, calls, ready, batch, budget>>

\* a new ScraperManager: the lazily built scraper_stats
UpdateInit ==
    /\ cache = <<>>
    /\ lock = 0
    /\ thr = [t \in Threads |-> IdleThread]
    /\ use_cache = TRUE
    /\ scraper_stats = [name \in Providers |-> FreshStats]
    /\ calls = [c \in CallIds |-> IdleCall]
    /\ ready = <<>>
    /\ batch = IdleBatch
    /\ budget = MaxRequests
    /\ route = [c \in CallIds |-> IdleRoute]
    /\ stats_response = NoResult
    /\ validation = NoValidation
    /\ phase = IdlePhase
    /\ scraper = IdleScraper

UpdateNext ==
    \E source_name \in UpdateNames, success \in BOOLEAN, error \in UpdateErrors :
        UpdateStats(source_name, success, error)

UpdateSpec == UpdateInit /\ [][UpdateNext]_vars

\* ---------------------------------------------------------------------------
\* requests of GET /dividend/{symbol} that overlap in time, on the global
\* scraper_manager = ScraperManager(use_cache=True)

\* a request arrives, whatever else is under way
RequestArrives(c, symbol, sources, cache_wanted) ==
    /\ route[c].pc = "idle"
    /\ calls[c].pc = "idle"
    /\ RouteHandler(c, symbol, sources, cache_wanted)

OverlapNext ==
    \/ \E c \in CallIds, cache_wanted \in BOOLEAN :
          RequestArrives(c, <<"B">>, <<>>, cache_wanted)
    \/ \E c \in CallIds, n \in RecordCounts : ScrapeSucceeds(c, n)
    \/ \E c \in CallIds, n \in RecordCounts : ScrapeEmpty(c, n)
    \/ \E c \in CallIds : ScrapeRateLimited(c)
    \/ SecondPasses
    \/ \E c \in CallIds : WakeUp(c)
    \/ \E c \in CallIds, kind \in {"ScraperError", "Exception"} : ScrapeFails(c, kind)
    \/ \E c \in CallIds : RouteReturns(c)
    \/ \E c \in CallIds : RouteRelease(c)

OverlapSpec == CacheInit /\ [][OverlapNext]_vars

\* ---------------------------------------------------------------------------
\* the ScraperManager on an event loop that runs what is ready, with providers
\* that answer and a clock that goes on

\* the provider awaited by call c returns or raises
AnswerArrives(c) ==
    \/ \E n \in RecordCounts : ScrapeSucceeds(c, n)
    \/ \E n \in RecordCounts : ScrapeEmpty(c, n)
    \/ ScrapeRateLimited(c)
    \/ \E kind \in {"ScraperError", "Exception"} : ScrapeFails(c, kind)

\* asyncio runs every task that is ready, wakes every sleeper whose time has
\* come, and resumes gather when its tasks are done; what the callers do next
\* is up to them
Fairness ==
    /\ \A c \in CallIds : WF_vars(AnswerArrives(c))
    /\ \A c \in CallIds : WF_vars(WakeUp(c))
    /\ WF_vars(SecondPasses)
    /\ WF_vars(RunTask)
    /\ WF_vars(GatherReturns)

LiveNext ==
    \/ \E c \in CallIds : GetDividendData(c, <<"B">>, <<>>)
    \/ \E c \in CallIds : AnswerArrives(c)
    \/ SecondPasses
    \/ \E c \in CallIds : WakeUp(c)
    \/ \E c \in CallIds : Release(c)
    \/ \E symbols \in HealthSymbolLists : GetMultipleSymbols(symbols, <<>>)
    \/ RunTask
    \/ GatherReturns
    \/ ReleaseBatch

LiveSpec == Init /\ [][LiveNext]_vars /\ Fairness

\* ------------------------------------------------------------------ claims

\* C6: cache round trip.  When set(symbol, r, ttl) completes, a get(symbol) made
\* at once returns a response with r's symbol, r's record sequence and r's
\* total_count, and with cached = true (for every ttl, ttl=None included).
C6_RoundTrip ==
    [][\A t \in Threads :
         ThreadSetStore(t) =>
           LET r == thr[t].data
               g == CacheGet(cache', thr[t].symbol).ret
           IN /\ g # NoResult
              /\ g.symbol = r.symbol
              /\ g.dividends = r.dividends
              /\ g.total_count = r.total_count
              /\ g.cached = TRUE]_vars

\* a get has hit an entry that a set stored with records carrying dates
C6_Witness ==
    \E i \in 1..Len(cache) :
       /\ cache[i].value.cached
       /\ cache[i].value.total_count = MaxRecords
       /\ Unexpired(cache[i])

\* C7: cache expiry.  get never returns an entry later than the expiry recorded
\* for it when it was stored (write time plus the ttl passed to set, or plus the
\* default TTL).  Stated for entries not read since they were stored, whose
\* cache_expires_at still is the expiry that set recorded.
C7_NoHitAfterRecordedExpiry ==
    [][\A t \in Threads, symbol \in CacheSymbols :
         LET key == GenerateCacheKey(symbol) IN
         (/\ ThreadGet(t, symbol)
          /\ Contains(cache, key)
          /\ ~Entry(cache, key).value.cached)
         => 0 <= Entry(cache, key).value.cache_expires_at[2]]_vars

\* C8: bounded capacity.  Whatever the interleaving of the callers, the cache
\* never holds more than max_size entries.
C8_BoundedCapacity == Len(cache) <= MaxSize

\* a set of a new key is under way on a full cache of unexpired entries
C8_Witness ==
    \E t \in Threads :
       /\ thr[t].pc = "evict"
       /\ Len(cache) = MaxSize
       /\ ~HasKey(cache, GenerateCacheKey(thr[t].symbol))

\* the results the callers hold: of the calls that have returned and of the batch
Returned ==
    { calls[c].result : c \in { d \in CallIds : calls[d].pc = "done" } }
    \cup { batch.results[s] : s \in DOMAIN batch.results }

\* a call begins in this step: a single call is made, or the loop runs a task
Begins(c) == calls[c].pc \in {"idle", "created"} /\ calls'[c].pc \in {"await", "done", "raised"}

\* C1: cache hit short-circuit.  When get_dividend_data begins while caching is
\* enabled and the cache holds an unexpired entry under the key of the canonical
\* symbol, it returns that entry (symbol, records, total_count and sources as
\* stored, cached = true) without suspending: no provider is attempted on that
\* call and no health counter changes.
C1_CacheHitShortCircuit ==
    [][\A c \in CallIds :
         LET key == GenerateCacheKey(Canonical(calls'[c].raw)) IN
         (Begins(c) /\ use_cache /\ Contains(cache, key)) =>
            LET e == Entry(cache, key).value
                r == calls'[c].result
            IN /\ calls'[c].pc = "done"
               /\ r.symbol = e.symbol
               /\ model_dump(r).dividends = e.dividends
               /\ r.total_count = e.total_count
               /\ r.sources_attempted = e.sources_attempted
               /\ r.successful_source = e.successful_source
               /\ r.cached = TRUE
               /\ calls'[c].attempted = <<>>
               /\ scraper_stats' = scraper_stats]_vars

\* a call has returned from the cache after the providers had been used
C1_Witness ==
    \E c \in CallIds :
       /\ calls[c].pc = "done"
       /\ calls[c].result.cached
       /\ calls[c].attempted = <<>>
       /\ \E p \in Providers : scraper_stats[p].success_count > 0

\* C2: fallback ordering.  When the provider at position idx of the order is the
\* first to answer with n >= 1 records, every provider ahead of it has been
\* attempted before it, in order, and the result has successful_source = that
\* provider, total_count = n, and sources_attempted containing it and every
\* provider ahead of it.
C2_FallbackOrdering ==
    [][\A c \in CallIds, n \in RecordCounts :
         ScrapeSucceeds(c, n) =>
            LET sources == SourcesToTry(calls[c].pref)
                idx == calls[c].idx
                r == calls'[c].result
            IN /\ calls[c].attempted = SubSeq(sources, 1, idx)
               /\ calls'[c].pc = "done"
               /\ r.successful_source = sources[idx]
               /\ r.total_count = n
               /\ Len(r.dividends) = n
               /\ \A j \in 1..idx : sources[j] \in Range(r.sources_attempted)]_vars

\* a call has returned the records of the second provider of a preferred order
C2_Witness ==
    \E c \in CallIds :
       /\ calls[c].pc = "done"
       /\ calls[c].pref # <<>>
       /\ calls[c].idx = 2
       /\ calls[c].result.total_count = MaxRecords
       /\ calls[c].result.successful_source = calls[c].pref[2]

\* C3: all providers fail.  A retrieval that ends without records does so only
\* after every provider of its order was attempted, and it returns the empty
\* result (total_count = 0, no records, successful_source None) and leaves the
\* cache as it was.
C3_AllFailEmptyResult ==
    [][\A c \in CallIds :
         (calls[c].pc \in {"await", "sleep"} /\ calls'[c].pc = "done"
            /\ calls'[c].result.total_count = 0) =>
            LET r == calls'[c].result IN
            /\ calls[c].attempted = SourcesToTry(calls[c].pref)
            /\ r.dividends = <<>>
            /\ r.successful_source = NoneStr
            /\ r.cached = FALSE
            /\ cache' = cache]_vars

\* a call has returned the empty result after both providers, over a cache that
\* holds an entry
C3_Witness ==
    \E c \in CallIds :
       /\ calls[c].pc = "done"
       /\ calls[c].result.total_count = 0
       /\ Len(calls[c].attempted) = Len(DefaultPriority)
       /\ cache # <<>>

\* the empty result: no records, no successful source
IsEmptyResult(r) ==
    r.total_count = 0 /\ r.dividends = <<>> /\ r.successful_source = NoneStr

\* the tasks of the batch whose entry of the mapping is not overwritten by a
\* later task of the same symbol
LastOfSymbol(i) ==
    \A j \in (i + 1)..Len(batch.tasks) : calls[batch.tasks[j]].raw # calls[batch.tasks[i]].raw

\* C4: batch isolation.  When get_multiple_symbols returns, it returns a mapping
\* and does not raise; the entry of a symbol whose retrieval raised is an empty
\* result under that symbol, and every other entry is the result of that
\* symbol's own retrieval.
C4_BatchIsolation ==
    [][GatherReturns =>
         /\ batch'.pc = "done"
         /\ \A i \in 1..Len(batch.tasks) :
               LET cl == calls[batch.tasks[i]] IN
               LastOfSymbol(i) =>
                  /\ cl.raw \in DOMAIN batch'.results
                  /\ IF cl.pc = "raised"
                     THEN /\ IsEmptyResult(batch'.results[cl.raw])
                          /\ batch'.results[cl.raw].symbol = cl.raw
                     ELSE batch'.results[cl.raw] = cl.result]_vars

\* a batch has returned in which one retrieval raised and another returned records
C4_Witness ==
    /\ batch.pc = "done"
    /\ \E i, j \in 1..Len(batch.tasks) :
          /\ calls[batch.tasks[i]].pc = "raised"
          /\ IsEmptyResult(batch.results[calls[batch.tasks[i]].raw])
          /\ calls[batch.tasks[j]].pc = "done"
          /\ batch.results[calls[batch.tasks[j]].raw].total_count = MaxRecords

\* C5: batch completeness.  The mapping get_multiple_symbols returns has exactly
\* one entry for each distinct symbol of the input list, under the string as it
\* was passed (not the canonical symbol).
C5_BatchCompleteness ==
    batch.pc = "done" =>
       DOMAIN batch.results = { calls[batch.tasks[i]].raw : i \in 1..Len(batch.tasks) }

\* a batch of two symbols has returned, one of them passed in a form that is not
\* canonical
C5_Witness ==
    /\ batch.pc = "done"
    /\ Cardinality(DOMAIN batch.results) = 2
    /\ \E s \in DOMAIN batch.results : s # Canonical(s) /\ batch.results[s].symbol = Canonical(s)

\* C9: every entry that get_dividend_data has put in the cache has
\* total_count >= 1 (and as many records).
C9_OnlyNonEmptyCached ==
    \A i \in 1..Len(cache) :
       cache[i].value.total_count >= 1 /\ Len(cache[i].value.dividends) = cache[i].value.total_count

\* the cache holds the result of a retrieval, and another retrieval, enabled to
\* cache, has returned from the providers without records and left no entry
C9_Witness ==
    /\ use_cache
    /\ cache # <<>>
    /\ \E r \in Returned :
          /\ r.total_count = 0
          /\ r.sources_attempted # <<>>
          /\ ~HasKey(cache, GenerateCacheKey(r.symbol))

\* C10: in every result returned, successful_source is non-null exactly when
\* total_count >= 1, and a non-null successful_source is one of
\* sources_attempted.
C10_SuccessfulSourceCoherent ==
    \A r \in Returned :
       /\ r.successful_source # NoneStr <=> r.total_count >= 1
       /\ r.successful_source # NoneStr => r.successful_source \in Range(r.sources_attempted)

\* the callers hold a result served from the cache, with its source, and an
\* empty one
C10_Witness ==
    /\ \E r \in Returned : r.cached /\ r.successful_source \in Providers
    /\ \E r \in Returned : r.successful_source = NoneStr /\ r.sources_attempted = <<>>

\* C11: provider-level failures are absorbed.  When a provider's
\* scrape_dividend_data raises (rate limit, scraper error or any other
\* exception), get_dividend_data does not raise: it goes on to the next provider,
\* at once or after the backoff, or returns the empty result.  The only call
\* that raises is one that attempted no provider.
C11_ProviderFailuresAbsorbed ==
    [][\A c \in CallIds :
         /\ ((\E kind \in {"ScraperError", "Exception"} : ScrapeFails(c, kind))
                \/ ScrapeRateLimited(c) \/ WakeUp(c))
            => /\ calls'[c].pc \in {"await", "sleep", "done"}
               /\ calls'[c].pc = "done" => IsEmptyResult(calls'[c].result)
               /\ calls'[c].pc = "await" => Len(calls'[c].attempted) = Len(calls[c].attempted) + 1
         /\ calls'[c].pc = "raised" => calls'[c].attempted = <<>>]_vars

\* a call has returned the empty result after both providers raised
C11_Witness ==
    \E c \in CallIds :
       /\ calls[c].pc = "done"
       /\ IsEmptyResult(calls[c].result)
       /\ \E p, q \in Providers :
             p # q /\ scraper_stats[p].error_count > 0 /\ scraper_stats[q].error_count > 0

\* C12 as stated: a get_dividend_data call whose preferred source list contains
\* a name that is not a registered provider is rejected, whatever the cache
\* holds and whatever other names the list contains.
C12_UnknownSourceRejected ==
    [][\A c \in CallIds :
         (Begins(c) /\ Range(calls'[c].pref) \ Scrapers # {}) => calls'[c].pc = "raised"]_vars

\* C12 amended: a request to the route GET /dividend/{symbol} with a symbol that
\* is not blank and a sources list that contains a name that is not a registered
\* provider is answered 400 INVALID_SOURCES, whatever the cache holds and
\* whatever other names the list contains; scraper_manager.get_dividend_data is
\* not called: no provider is attempted, and cache, statistics and use_cache stay
\* as they were.
C12_RouteRejectsUnknownSource ==
    [][\A c \in CallIds, symbol \in RouteSymbols, sources \in RouteSources,
          cache_wanted \in BOOLEAN :
         (/\ RouteGetDividendData(c, symbol, sources, cache_wanted)
          /\ Strip(symbol) # <<>>
          /\ Range(sources) \ Scrapers # {})
         => /\ route'[c].pc = "responded"
            /\ route'[c].status = 400
            /\ route'[c].error_code = "INVALID_SOURCES"
            /\ route'[c].body = NoResult
            /\ UNCHANGED <<cache, calls, scraper_stats, use_cache>>]_vars

\* a request naming a valid and an unknown source has been refused while the
\* cache holds an entry for its symbol
C12_Witness ==
    \E c \in CallIds :
       /\ route[c].pc = "responded"
       /\ route[c].error_code = "INVALID_SOURCES"
       /\ Range(route[c].sources) \cap Scrapers # {}
       /\ Contains(cache, GenerateCacheKey(Canonical(route[c].symbol)))

\* C13: invalid symbols interrupt the pipeline.  A single-symbol get for an
\* invalid symbol (canonical form empty or longer than 10 characters) ends with
\* an invalid-symbol error surfaced to the caller: the route answers it with
\* INVALID_SYMBOL and no result (with INVALID_SOURCES when its source list is
\* refused as well), and a direct get_dividend_data call for it never returns a
\* result.
C13_InvalidSymbolSurfaced ==
    \A c \in CallIds :
        /\ (route[c].pc = "responded" /\ ~ValidSymbol(route[c].symbol))
           => /\ route[c].body = NoResult
              /\ route[c].error_code \in {"INVALID_SYMBOL", "INVALID_SOURCES"}
              /\ Range(route[c].sources) \subseteq ValidSources
                 => route[c].error_code = "INVALID_SYMBOL"
        /\ (calls[c].kind = "single" /\ ~ValidSymbol(calls[c].raw))
           => calls[c].pc # "done"

\* C14: provider unavailability is surfaced.  When every provider attempted for
\* a request on a valid symbol has failed with an error, the caller receives the
\* service-level failure (503 SCRAPER_ERROR), not the 200 with an empty result
\* that answers "no data found".  Stated on the first request that reaches the
\* providers, for which the health counters record exactly its own attempts.
C14_AllErrorsUnavailable ==
    [][\A c \in CallIds :
         (/\ RouteReturns(c)
          /\ budget = MaxRequests - 1
          /\ ValidSymbol(route[c].symbol)
          /\ \A src \in Range(calls[c].attempted) : scraper_stats[src].error_count > 0)
         => /\ route'[c].status = 503
            /\ route'[c].error_code = "SCRAPER_ERROR"
            /\ route'[c].body = NoResult]_vars

\* C15 as stated: the reported success rate is exactly 100*s/(s+e).
C15_ExactSuccessRate ==
    stats_response # NoResult =>
        \A name \in DOMAIN stats_response.scraper_performance :
            LET p == stats_response.scraper_performance[name]
                s == p.success_count
                e == p.error_count
            IN /\ p.total_requests = s + e
               /\ (s + e = 0) => p.success_rate_percent = 0
               /\ (s + e > 0) => p.success_rate_percent * (s + e) = 10000 * s

\* C15: health success rate.  For a provider with s recorded successes and e
\* recorded failures, get_scraper_stats reports total_requests = s+e and
\* success_rate_percent = 100*s/(s+e) rounded to two decimal places when
\* s+e > 0 (the hundredth nearest to it; the exact value when that has at most
\* two decimals), and 0 when s+e = 0; the counters reported are the recorded ones.
C15_RoundedSuccessRate ==
    [][GetScraperStats =>
         \A name \in Providers :
             LET p == stats_response'.scraper_performance[name]
                 s == scraper_stats[name].success_count
                 e == scraper_stats[name].error_count
                 d == p.success_rate_percent * (s + e) - 10000 * s
             IN /\ p.success_count = s /\ p.error_count = e
                /\ p.total_requests = s + e
                /\ (s + e = 0) => p.success_rate_percent = 0
                /\ (s + e > 0) => (2 * d <= s + e /\ -2 * d <= s + e)
                /\ (s = 3 /\ e = 1) => p.success_rate_percent = 7500]_vars

\* get_scraper_stats has reported 33.33 for one success and two failures
C15_Witness ==
    /\ stats_response # NoResult
    /\ \E name \in Providers :
         /\ scraper_stats[name] = [success_count |-> 1, error_count |-> 2]
         /\ stats_response.scraper_performance[name].success_rate_percent = 3333

\* C16: invalidate.  CacheManager.invalidate(symbol) returns true exactly when
\* an unexpired entry under the key of the symbol was present; when it returns,
\* a get of the symbol is a miss, and the entries stored under other keys are
\* the ones there were before, unchanged and in the same order.
C16_InvalidateOneKey ==
    [][\A t \in Threads, symbol \in CacheSymbols :
         ThreadInvalidate(t, symbol) =>
           LET key == GenerateCacheKey(symbol)
               others(c) == SelectSeq(c, LAMBDA e : e.key # key)
           IN /\ thr'[t].ret = (\E i \in DOMAIN cache :
                                   cache[i].key = key /\ 0 < cache[i].expires)
              /\ CacheGet(cache', symbol).ret = NoResult
              /\ others(cache') = others(cache)]_vars

\* invalidate has removed the entry of one symbol and returns true while the
\* entry of another symbol is in the cache
C16_Witness ==
    \E t \in Threads :
       /\ thr[t].pc = "invalidated"
       /\ thr[t].ret
       /\ ~HasKey(cache, GenerateCacheKey(thr[t].symbol))
       /\ \E i \in DOMAIN cache : Unexpired(cache[i])

\* C17: cache keys are canonical.  Two symbol strings with the same canonical
\* form (trimmed and uppercased) address the same entry, so that
\* invalidate_symbol_cache(s), with caching enabled, leaves no entry under the
\* key where get_dividend_data(s) stores its result.
C17_CanonicalKeys ==
    \A symbol \in RawSymbols :
        use_cache =>
            ~Contains(SymbolCacheInvalidated(cache, symbol, use_cache).cache,
                      GenerateCacheKey(Canonical(symbol)))

\* C18: canonicalization is idempotent.  For every valid symbol string, the
\* canonical form that get_dividend_data computes and the normalized form that
\* _validate_symbol returns are each left as they are by a second application,
\* they are the same string, and _validate_symbol accepts a canonical valid
\* symbol and returns it unchanged.
C18_CanonicalizationIdempotent ==
    [][/\ (Canonicalize /\ ValidSymbol(validation.symbol))
          => /\ Canonical(validation'.symbol) = validation'.symbol
             /\ validation'.symbol = Normalized(validation.symbol)
       /\ (ValidateSymbol /\ ValidSymbol(validation.symbol))
          => /\ validation'.pc = "returned"
             /\ Normalized(validation'.symbol) = validation'.symbol
             /\ ValidSymbol(validation'.symbol)
       /\ (ValidateSymbol /\ validation.pc = "canonical" /\ ValidSymbol(validation.symbol))
          => validation'.symbol = validation.symbol]_vars

\* _validate_symbol has returned a symbol of the greatest valid length that
\* reached it canonicalised from a string with lowercase letters and blanks
C18_Witness ==
    /\ validation.pc = "returned"
    /\ Len(validation.symbol) = MaxSymbolLen
    /\ Len(validation.raw) = MaxSymbolLen + 2
    /\ validation.symbol = Canonical(validation.raw)

\* C19: concurrent-phase race.  When _try_concurrent_scraping has launched two
\* providers of which one ends without data (an exception, its timeout or zero
\* records) and the other one answers with at least one record within its
\* timeout, and the phase does not run into its own timeout, the phase returns
\* the data of the provider that answers with records, whichever of the two
\* ends first.
C19_FirstSuccessWins ==
    \A i, j \in DOMAIN phase.tasks :
        (/\ phase.pc = "returned"
         /\ Len(phase.tasks) = 2
         /\ \E m \in DOMAIN phase.tasks : phase.tasks[m].state = "done"
         /\ ~(phase.tasks[i].will.kind = "response" /\ phase.tasks[i].will.n > 0)
         /\ phase.tasks[j].will.kind = "response" /\ phase.tasks[j].will.n > 0)
        => /\ phase.result # NoResult
           /\ phase.result.successful_source = phase.tasks[j].source_name
           /\ phase.result.total_count = phase.tasks[j].will.n

\* C20: sequential order.  Within one get_dividend_data call the providers are
\* attempted one at a time in the order of the resolved list: the attempts made
\* so far are always the first providers of the list, in its order; an attempt
\* is added only when the call begins (the first provider) or in a step in which
\* the call was waiting for the previous provider's answer or sleeping after its
\* rate limit, and then exactly the next provider of the list is added.
C20_SequentialOrder ==
    [][\A c \in CallIds :
         LET cl == calls[c]
             after == calls'[c]
             sources == SourcesToTry(after.pref)
         IN (after.attempted # cl.attempted /\ after.attempted # <<>>)
            => /\ Len(after.attempted) <= Len(sources)
               /\ after.attempted = SubSeq(sources, 1, Len(after.attempted))
               /\ after.pc = "await"
               /\ after.idx = Len(after.attempted)
               /\ IF Begins(c)
                  THEN Len(after.attempted) = 1
                  ELSE /\ cl.pc \in {"await", "sleep"}
                       /\ cl.raw = after.raw /\ cl.pref = after.pref
                       /\ Len(after.attempted) = Len(cl.attempted) + 1
                       /\ cl.idx = Len(cl.attempted)]_vars

\* a call that prefers marketwatch is waiting for yahoo, its second provider
C20_Witness ==
    \E c \in CallIds :
       /\ calls[c].pc = "await"
       /\ calls[c].idx = 2
       /\ calls[c].attempted = <<"marketwatch", "yahoo">>

\* C21: stop on first success.  When a provider answers with at least one record
\* in the sequential phase, its success_count goes up by exactly one and no other
\* counter changes, the call returns that provider's records with it as
\* successful source, no further provider is attempted (the attempts stay as
\* they were, also while the caller holds the result) and the concurrent phase
\* is not entered.
C21_StopOnFirstSuccess ==
    [][\A c \in CallIds :
         /\ \A n \in RecordCounts :
              ScrapeSucceeds(c, n) =>
                LET source_name == SourcesToTry(calls[c].pref)[calls[c].idx] IN
                /\ scraper_stats' = [scraper_stats EXCEPT ![source_name].success_count = @ + 1]
                /\ calls'[c].pc = "done"
                /\ calls'[c].attempted = calls[c].attempted
                /\ calls'[c].idx = calls[c].idx
                /\ calls'[c].result.successful_source = source_name
                /\ calls'[c].result.total_count = n
         /\ (calls[c].pc = "done" /\ calls'[c] # calls[c]) => calls'[c] = IdleCall]_vars

\* a call has returned the records of the first provider of a list of two, and
\* the second provider has not been attempted
C21_Witness ==
    \E c \in CallIds :
       /\ calls[c].pc = "done"
       /\ Len(SourcesToTry(calls[c].pref)) = 2
       /\ calls[c].attempted = <<SourcesToTry(calls[c].pref)[1]>>
       /\ calls[c].result.total_count > 0
       /\ calls[c].result.cached = FALSE

\* C22: rate-limit backoff.  When a provider raises RateLimitError in the
\* sequential phase, its error_count goes up by exactly one and the call sleeps:
\* the next provider of the call is attempted only once the Backoff seconds have
\* passed, one by one.  A ScraperError or another exception counts one error as
\* well and moves to the next provider in the same step, without the wait.
C22_RateLimitBackoff ==
    [][\A c \in CallIds :
         LET source_name == SourcesToTry(calls[c].pref)[calls[c].idx]
             counted == [scraper_stats EXCEPT ![source_name].error_count = @ + 1]
         IN /\ ScrapeRateLimited(c)
               => /\ scraper_stats' = counted
                  /\ calls'[c] = [calls[c] EXCEPT !.pc = "sleep", !.wake = Backoff]
            /\ (calls[c].pc = "sleep" /\ calls'[c] # calls[c])
               => \/ /\ calls[c].wake > 0
                     /\ calls'[c] = [calls[c] EXCEPT !.wake = @ - 1]
                  \/ /\ calls[c].wake = 0
                     /\ calls'[c] = NextSource(calls[c])
            /\ \A kind \in {"ScraperError", "Exception"} :
                 ScrapeFails(c, kind)
                 => /\ scraper_stats' = counted
                    /\ calls'[c].pc # "sleep"
                    /\ calls'[c] = NextSource(calls[c])]_vars

\* the backoff of a call is over after its first provider's rate limit, and the
\* second provider is still to be attempted
C22_Witness ==
    \E c \in CallIds :
       /\ calls[c].pc = "sleep"
       /\ calls[c].wake = 0
       /\ calls[c].idx = 1
       /\ Len(SourcesToTry(calls[c].pref)) = 2
       /\ scraper_stats[SourcesToTry(calls[c].pref)[1]].error_count = 1

\* C23: rate-limit classification.  When a scrape_dividend_data call of the
\* provider has received an HTTP 429 and ends without a record, it ends with
\* RateLimitError, the classification for which the sequential phase has its
\* rate-limit branch.
C23_RateLimitClassified ==
    \A k \in Callers :
        (/\ scraper.tasks[k].pc = "ended"
         /\ scraper.tasks[k].rate_limited
         /\ scraper.tasks[k].dividends = 0)
        => scraper.tasks[k].outcome.kind = "RateLimitError"

\* C24: per-provider request spacing.  Whenever a call on the scraper sends a
\* request through _fetch_page, at least rate_limit_delay has passed since the
\* previous request of that scraper was sent, whichever call sent it and
\* however many calls are suspended in _respect_rate_limit.
C24_RequestSpacing ==
    [][\A k \in Callers :
         (/\ scraper'.tasks[k].pc = "request"
          /\ \/ scraper.tasks[k].pc # "request"
             \/ scraper'.tasks[k].page # scraper.tasks[k].page)
         => scraper.since_last = RateLimitDelay]_vars

\* C25: concurrent-phase cancellation.  When _try_concurrent_scraping has
\* returned, with a winner, with no result or after the timeout of its wait,
\* every task it launched is done or cancelled: none is still running.
C25_NoTaskLeftRunning ==
    phase.pc = "returned" =>
        \A i \in DOMAIN phase.tasks : phase.tasks[i].state \in {"done", "cancelled"}

\* the phase has returned the records of one provider and cancelled the task
\* of the other
C25_Witness ==
    /\ phase.pc = "returned"
    /\ phase.result # NoResult
    /\ \E i, j \in DOMAIN phase.tasks :
         /\ phase.tasks[i].state = "done"
         /\ phase.tasks[j].state = "cancelled"

\* C26: what the concurrent phase launches.  Called with a list of registered
\* providers, _try_concurrent_scraping creates tasks exactly for the first
\* max_concurrent providers of the list that are not in sources_attempted, in
\* the order of the list, and appends each of them to sources_attempted; when no
\* such provider is left it creates no task and returns no result at once.
C26_LaunchesRemainingUpToLimit ==
    [][\A sources \in PhaseSources, attempted \in PhaseAttempted,
          max_concurrent \in PhaseConcurrency :
         (/\ TryConcurrentScraping(<<"B">>, sources, attempted, max_concurrent)
          /\ Range(sources) \subseteq Scrapers)
         => LET launched == [i \in DOMAIN phase'.tasks |-> phase'.tasks[i].source_name]
                remaining == SelectSeq(sources, LAMBDA src : src \notin Range(attempted))
            IN /\ Len(launched) = Min(max_concurrent, Len(remaining))
               /\ launched = SubSeq(remaining, 1, Len(launched))
               /\ Range(launched) \cap Range(attempted) = {}
               /\ phase'.sources_attempted = attempted \o launched
               /\ \A i \in DOMAIN phase'.tasks : phase'.tasks[i].state = "running"
               /\ IF remaining = <<>>
                  THEN phase'.pc = "returned" /\ phase'.result = NoResult
                  ELSE phase'.pc = "wait"]_vars

\* yahoo had been attempted, and the phase has launched marketwatch alone
C26_Witness ==
    /\ phase.pc = "wait"
    /\ Len(phase.tasks) = 1
    /\ phase.tasks[1].source_name = "marketwatch"
    /\ phase.sources_attempted = <<"yahoo", "marketwatch">>

\* C27: a cache hit does not extend the real lifetime of an entry.  The time an
\* entry has left is the cache's TTL when set stores it, a tick less after each
\* tick, and the same after a get that hits it, so nothing but a new set of the
\* key gives the entry more time; and an entry whose time is up is a miss.
C27_HitKeepsLifetime ==
    /\ [][\A k \in { GenerateCacheKey(symbol) : symbol \in CacheSymbols } :
            /\ (HasKey(cache, k) /\ HasKey(cache', k)
                /\ Entry(cache', k).expires > Entry(cache, k).expires)
               => \E t \in Threads : /\ thr[t].pc = "store"
                                     /\ thr'[t].pc = "idle"
                                     /\ GenerateCacheKey(thr[t].symbol) = k
                                     /\ Entry(cache', k).expires = DefaultTTL
            /\ \A t \in Threads, symbol \in CacheSymbols :
                  (ThreadGet(t, symbol) /\ GenerateCacheKey(symbol) = k /\ Contains(cache, k))
                  => /\ HasKey(cache', k)
                     /\ Entry(cache', k).expires = Entry(cache, k).expires
            /\ (Tick /\ HasKey(cache, k) /\ Unexpired(Entry(cache, k)))
               => Entry(cache', k).expires = Entry(cache, k).expires - 1]_vars
    /\ [](\A symbol \in CacheSymbols :
            (/\ HasKey(cache, GenerateCacheKey(symbol))
             /\ Entry(cache, GenerateCacheKey(symbol)).expires = 0)
            => CacheGet(cache, symbol).ret = NoResult)

\* an entry was hit one tick before its time was up, and its time is up now,
\* while the label written by the hit still lies in the future
C27_Witness ==
    \E i \in 1..Len(cache) :
        /\ cache[i].expires = 0
        /\ cache[i].value.cached = TRUE
        /\ cache[i].value.cache_expires_at = Datetime(DefaultTTL - 1)
        /\ CacheGet(cache, <<"A">>).ret = NoResult
        /\ cache[i].key = GenerateCacheKey(<<"A">>)

\* C28: the cache_expires_at of a result returned by a cache hit is the expiry
\* that was recorded when the entry was stored, whenever the entry is read.
C28_HitReportsStoredExpiry ==
    \A symbol \in CacheSymbols :
        LET key == GenerateCacheKey(symbol) IN
        Contains(cache, key)
        => CacheGet(cache, symbol).ret.cache_expires_at = Datetime(Entry(cache, key).expires)

\* C29: sources_attempted of every result returned by get_dividend_data holds
\* each provider name at most once, whichever preferred list was given.
C29_AttemptedOnce ==
    \A c \in CallIds :
        (calls[c].pc = "done" /\ calls[c].result # NoResult)
        => LET attempted == calls[c].result.sources_attempted
           IN \A i, j \in DOMAIN attempted : attempted[i] = attempted[j] => i = j

\* C30: get_multiple_symbols launches exactly one get_dividend_data per distinct
\* symbol of its input: no two tasks of a batch retrieve the same symbol.
C30_OneRetrievalPerSymbol ==
    batch.pc \in {"gather", "done"}
    => \A i, j \in DOMAIN batch.tasks :
          (/\ calls[batch.tasks[i]].kind = "batch"
           /\ calls[batch.tasks[j]].kind = "batch"
           /\ calls[batch.tasks[i]].raw = calls[batch.tasks[j]].raw)
          => i = j

\* C31: with caching disabled get_dividend_data neither reads nor writes the
\* cache.  A call that begins while use_cache is false is not answered from the
\* cache, whatever the cache holds: it goes to the providers (or raises for want
\* of a registered source); and no step of a call taken while use_cache is false
\* changes the cache.
C31_DisabledCacheUntouched ==
    [][\A c \in CallIds :
         /\ (Begins(c) /\ ~use_cache')
            => /\ calls'[c].pc \in {"await", "raised"}
               /\ cache' = cache
         /\ (calls[c].pc \in {"await", "sleep"} /\ calls'[c] # calls[c] /\ ~use_cache)
            => cache' = cache]_vars

\* a call made with caching disabled has fetched records from a provider while
\* the cache held an unexpired entry of its symbol
C31_Witness ==
    \E c \in CallIds :
        /\ ~use_cache
        /\ calls[c].pc = "done"
        /\ calls[c].result.total_count > 0
        /\ ~calls[c].result.cached
        /\ Contains(cache, GenerateCacheKey(Canonical(calls[c].raw)))

\* C32: the health counters are never reset or decreased.  In every step of the
\* ScraperManager under get_dividend_data, get_multiple_symbols, clear_cache,
\* invalidate_symbol_cache and get_scraper_stats no success_count and no
\* error_count goes down, and the counters change only in a step in which a
\* call that was waiting for a provider's answer takes it, and then only the
\* counters of that provider.
C32_CountersMonotone ==
    [][/\ \A p \in Providers :
            /\ scraper_stats'[p].success_count >= scraper_stats[p].success_count
            /\ scraper_stats'[p].error_count >= scraper_stats[p].error_count
       /\ scraper_stats' # scraper_stats
          => \E c \in CallIds :
                /\ calls[c].pc = "await"
                /\ calls'[c] # calls[c]
                /\ \A p \in Providers \ {SourcesToTry(calls[c].pref)[calls[c].idx]} :
                      scraper_stats'[p] = scraper_stats[p]]_vars

\* yahoo has a success on record, the cache it filled has been emptied again, and
\* get_scraper_stats has reported the success
C32_Witness ==
    /\ use_cache
    /\ scraper_stats["yahoo"].success_count >= 1
    /\ cache = <<>>
    /\ stats_response # NoResult
    /\ stats_response.scraper_performance["yahoo"].success_count >= 1
    /\ \A c \in CallIds : calls[c].pc = "idle"

\* the tasks of the batch that ended with records of provider p
SucceededWith(p) ==
    { i \in DOMAIN batch.tasks :
        LET cl == calls[batch.tasks[i]]
        IN /\ cl.pc = "done"
           /\ cl.attempted # <<>>
           /\ cl.result.successful_source = p }

C34_UnknownProviderIgnored ==
    \A source_name \in UpdateNames \ DOMAIN scraper_stats,
       success \in BOOLEAN, error \in UpdateErrors :
        UpdateStatsRecord(scraper_stats, source_name, success, error) = scraper_stats

\* both providers have successes, failures and an error message on record
C34_Witness ==
    /\ "bogus" \notin DOMAIN scraper_stats
    /\ \A name \in DOMAIN scraper_stats :
          /\ scraper_stats[name].success_count >= 1
          /\ scraper_stats[name].error_count >= 1
          /\ scraper_stats[name].last_success = Datetime(0)
          /\ scraper_stats[name].last_error_message = "Timeout scraping"

\* C35: a zero-record answer is neutral.  When a provider answers without records
\* in the sequential phase, no success_count and no error_count changes, and
\* the call goes on to the next provider of its list; after the last provider
\* it ends with the empty result.
C35_ZeroRecordsNeutral ==
    [][\A c \in CallIds, n \in RecordCounts :
         ScrapeEmpty(c, n)
         => LET cl == calls[c]
                after == calls'[c]
                sources == SourcesToTry(cl.pref)
            IN /\ scraper_stats' = scraper_stats
               /\ IF cl.idx < Len(sources)
                  THEN /\ after.pc = "await"
                       /\ after.idx = cl.idx + 1
                       /\ after.attempted = Append(cl.attempted, sources[cl.idx + 1])
                  ELSE /\ after.pc = "done"
                       /\ IsEmptyResult(after.result)]_vars

\* the first call of a manager waits for its second provider while no counter
\* has moved: the first provider answered without records
C35_Witness ==
    \E c \in CallIds :
        /\ calls[c].pc = "await"
        /\ calls[c].idx = 2
        /\ budget = MaxRequests - 1
        /\ \A p \in Providers : scraper_stats[p] = [success_count |-> 0, error_count |-> 0]

\* C36: within get_dividend_data the concurrent phase launches nothing.  No call
\* is ever waiting for tasks of the concurrent phase; a call that is at the last
\* provider of its list has attempted every provider of the list; and a call
\* that ended without data ended when the sequential loop did, with exactly the
\* providers of its list attempted.
C36_ConcurrentPhaseLaunchesNothing ==
    \A c \in CallIds :
        LET cl == calls[c]
            sources == SourcesToTry(cl.pref)
        IN /\ cl.pc # "concurrent"
           /\ (cl.pc \in {"await", "sleep"} /\ cl.idx = Len(sources))
              => /\ Range(sources) \subseteq Range(cl.attempted)
                 /\ ConcurrentSources(sources, cl.attempted) = <<>>
           /\ (cl.pc = "done" /\ cl.attempted # <<>> /\ IsEmptyResult(cl.result))
              => /\ cl.attempted = sources
                 /\ cl.result.sources_attempted = sources

\* both providers of the list were attempted in turn and the call has ended
\* without data
C36_Witness ==
    \E c \in CallIds :
        /\ calls[c].pc = "done"
        /\ IsEmptyResult(calls[c].result)
        /\ ~calls[c].result.cached
        /\ Len(calls[c].attempted) = 2
        /\ calls[c].attempted = SourcesToTry(calls[c].pref)

\* C37: the use_cache=false option of a request is undone when the request is
\* over.  Whenever no request is in flight, scraper_manager.use_cache has its
\* configured value, true.
C37_CacheSettingRestored ==
    (\A c \in CallIds : route[c].pc # "await") => use_cache

\* C38: per-request cache isolation.  A request made with use_cache=true is
\* answered from the cache when the cache holds an unexpired entry of its symbol
\* on its arrival, and the records it gets from a provider are in the cache when
\* its retrieval ends, whatever other requests are in flight.
C38_RequestCacheIsolation ==
    [][\A c \in CallIds :
         LET key == GenerateCacheKey(Canonical(<<"B">>)) IN
         /\ (RequestArrives(c, <<"B">>, <<>>, TRUE) /\ Contains(cache, key))
            => /\ route'[c].pc = "responded"
               /\ route'[c].body # NoResult
               /\ route'[c].body.cached
         /\ \A n \in RecordCounts :
               (/\ ScrapeSucceeds(c, n)
                /\ route[c].pc = "await"
                /\ route[c].use_cache)
               => Contains(cache', GenerateCacheKey(Canonical(calls[c].raw)))]_vars

\* C39: a result returned by get_dividend_data(symbol, preferred_sources = S)
\* with S non-empty has a successful_source that is null or a member of S.
C39_SourceAmongPreferred ==
    \A c \in CallIds :
        (calls[c].pc = "done" /\ calls[c].pref # <<>>)
        => \/ calls[c].result.successful_source = NoneStr
           \/ calls[c].result.successful_source \in Range(calls[c].pref)

\* C39, amended: the same for a result that was not served from the cache
\* (cached = false); a result served from the cache names the provider of the
\* call that stored it.
C39_FetchedSourceAmongPreferred ==
    \A c \in CallIds :
        (calls[c].pc = "done" /\ calls[c].pref # <<>> /\ ~calls[c].result.cached)
        => \/ calls[c].result.successful_source = NoneStr
           \/ calls[c].result.successful_source \in Range(calls[c].pref)

\* a call that preferred marketwatch to yahoo has fetched its records from
\* marketwatch
C39_Witness ==
    \E c \in CallIds :
        /\ calls[c].pc = "done"
        /\ calls[c].pref = <<"marketwatch", "yahoo">>
        /\ ~calls[c].result.cached
        /\ calls[c].result.successful_source = "marketwatch"

\* C40: termination.  With providers that always answer, no get_dividend_data
\* call stays created, waiting for a provider, sleeping after a rate limit or
\* waiting for concurrent tasks forever, and no get_multiple_symbols call stays
\* in gather forever: each of them is again and again idle or returned (with a
\* result, an exception or the mapping).
C40_Termination ==
    /\ \A c \in CallIds : []<>(calls[c].pc \in {"idle", "done", "raised"})
    /\ []<>(batch.pc \in {"idle", "done"})

\* a batch of two retrievals has its mapping although yahoo was rate limited on
\* the way
C40_Witness ==
    /\ batch.pc = "done"
    /\ Len(batch.tasks) = 2
    /\ DOMAIN batch.results # {}
    /\ scraper_stats["yahoo"].error_count >= 1
    /\ \A i \in DOMAIN batch.tasks : calls[batch.tasks[i]].pc \in {"done", "raised"}

=============================================================================
